---- MODULE Spec2Model ----
(***************************************************************************)
(* Model of the transcription pipeline of video-to-text-gui:               *)
(*   TranscriptionController (app/services/transcription_controller.py),   *)
(*   TranscriptionService    (app/services/transcription_service.py),      *)
(*   and the parts of ErrorHandler / FileManager they call.                *)
(* Threads: one caller thread (start / cancel), and one worker thread per  *)
(* accepted start.  Every worker shares the single service instance.       *)
(***************************************************************************)
EXTENDS Integers, Sequences, FiniteSets, TLC

\* ---------------------------------------------------------------- bounds
MaxRuns == 2        \* accepted runs (worker threads) per behaviour
MaxDurUnits == 3    \* longest audio duration of a controller run, in units of DurUnit seconds
MaxDirectDurUnits == 5  \* longest audio duration of a direct call, in the same units
DurUnit == 15       \* granularity of the audio durations tried, in seconds

\* ------------------------------------------------------- program constants
ChunkDuration == 30
PctScale == 3 * 4 * 5   \* percentages are kept as integers, in 1/60 percent

Workers == 1..MaxRuns
NoThread == 0
NoRequest == 0
NoFile == 0
NoDuration == -1
Free == "free"
Caller == "caller"

Pct(p) == p * PctScale
NoPct == Pct(0) - 1
Milestones == {Pct(0), Pct(10), Pct(30), Pct(50), Pct(80), Pct(100)}
Durations == {NoDuration} \cup {u * DurUnit : u \in 0..MaxDurUnits}
DirectDurations == {NoDuration} \cup {u * DurUnit : u \in 0..MaxDirectDurUnits}

VARIABLES
    usage,            \* "controller": the service is driven by the controller;
                      \* "direct": a client calls the service itself
    is_running,       \* TranscriptionController._is_running
    current_request,  \* TranscriptionController._current_request
    current_thread,   \* TranscriptionController._current_thread
    thread_lock,      \* owner of TranscriptionController._thread_lock
    cancel_event,     \* TranscriptionService._cancel_event
    temp_audio_file,  \* TranscriptionService._temp_audio_file
    disk,             \* temporary audio files that exist on disk
    pc,               \* position of each worker thread
    frame,            \* locals of each worker: handles, temp path, chunks
    result,           \* result each worker holds (transcribe_video's value)
    delivered,        \* results handed to the completion callback, per run
    lastPct,          \* last percentage delivered to the progress callback
    escaped,          \* exception that left the worker thread / the call
    callerPc,         \* position of the caller thread inside cancel
    lastCall,         \* outcome of the latest start / cancel call
    callTick,         \* flips at every start / cancel call
    earlyCancel,      \* live runs cancelled before any progress was delivered
    starters,         \* client threads inside start_transcription, step by step
    request,          \* the request given to validation or to start_transcription
    errors,           \* the error list validate_transcription_request returns
    cleanups,         \* workers that have called file_manager.cleanup_temp_files
    headless,         \* position of the main thread of a headless (CLI) run
    save,             \* a call of FileManager.save_transcript and the file it wrote
    stream,           \* the opened audio source of one recognition and its chunk loop
    throttle,         \* the clock and the service's _last_progress_update, report by report
    panel,            \* ProgressPanel: its pending updates and what the bar was set to
    callbacks         \* the registered callbacks: whether they can raise, and the errors logged

ctrl == <<is_running, current_request, current_thread>>
engine == <<cancel_event, temp_audio_file, disk>>
workerState == <<pc, frame, result, delivered, lastPct, escaped>>
callLog == <<lastCall, callTick, earlyCancel>>
validation == <<request, errors>>
vars == <<usage, ctrl, thread_lock, engine, workerState, callerPc, callLog, starters,
          validation, cleanups, headless, save, stream, throttle, panel,
          callbacks>>

\* ------------------------------------------------------------ data values
NoResult == [success |-> FALSE, transcript |-> <<>>, error_message |-> "unset",
             output_file_path |-> NoRequest]

TranscriptionResult(s, t, e, o) ==
    [success |-> s, transcript |-> t, error_message |-> e, output_file_path |-> o]

FailedResult(msg) == TranscriptionResult(FALSE, <<>>, msg, NoRequest)

_create_cancelled_result == FailedResult("Transcription was cancelled by user")

\* heard: what recognize_google answered in this run, call by call.
EmptyFrame == [video |-> FALSE, audio |-> FALSE, temp_audio_path |-> NoFile,
               duration |-> NoDuration, num_chunks |-> 0, i |-> 0,
               transcript_parts |-> <<>>, transcript |-> <<>>, heard |-> <<>>,
               pending |-> "none"]

\* The locals of _transcribe_audio_file_optimized go when it is left; the
\* transcript it returns stays in transcribe_video's frame.
LeftRecognizer(f) == [f EXCEPT !.duration = NoDuration, !.num_chunks = 0, !.i = 0,
                               !.transcript_parts = <<>>]

\* The locals of transcribe_video go when it is left; a handle that was not
\* closed stays open.
LeftTranscribe(f) == [EmptyFrame EXCEPT !.video = f.video, !.audio = f.audio,
                                        !.heard = f.heard]

\* A text is a sequence of characters: Space, or the word of chunk k (k >= 1).
Space == 0

\* The answers of recognize_google that are texts, and the text returned for
\* chunk k: words, words with whitespace around them, or only whitespace.
Texts == {"text", "padded", "blank"}
Text(k, outcome) ==
    CASE outcome = "text" -> <<k>>
      [] outcome = "padded" -> <<Space, k, Space>>
      [] OTHER -> <<Space>>

\* The whole-file call is recorded as chunk 0.
WholeFile == 0

\* The answers are recorded for the calls a client makes to transcribe_video
\* itself; under the controller the record stays empty.
Heard(f, chunk, outcome) ==
    IF usage = "direct" THEN Append(f.heard, [chunk |-> chunk, answer |-> outcome])
    ELSE f.heard

\* str.strip(): leading and trailing whitespace removed.
RECURSIVE Strip(_)
Strip(t) ==
    IF t = <<>> THEN t
    ELSE IF Head(t) = Space THEN Strip(Tail(t))
    ELSE IF t[Len(t)] = Space THEN Strip(SubSeq(t, 1, Len(t) - 1))
    ELSE t

\* " ".join(parts)
RECURSIVE Join(_)
Join(parts) ==
    IF parts = <<>> THEN <<>>
    ELSE IF Len(parts) = 1 THEN parts[1]
    ELSE parts[1] \o <<Space>> \o Join(Tail(parts))

\* ------------------------------------------------------------ ErrorHandler
\* Keyword parameters ErrorHandler.handle_error accepts.
HandleErrorParams == {"error", "category", "severity", "context", "show_dialog"}

\* Methods ErrorHandler defines for reporting.
ErrorHandlerMethods == {"handle_error", "handle_file_error", "handle_video_processing_error",
                        "handle_speech_recognition_error", "handle_settings_error",
                        "handle_gui_error"}

\* Attributes of a TranscriptionRequest (a plain dataclass).
TranscriptionRequestAttrs == {"video_path", "output_path", "output_format", "verbose", "timestamp"}

\* Outcome of calling error_handler.<method>(**kwargs): the exception the call
\* itself raises, or "none".
CallErrorHandler(method, kwargs) ==
    IF method \notin ErrorHandlerMethods THEN "AttributeError"
    ELSE IF method = "handle_error" /\ ~(kwargs \subseteq HandleErrorParams) THEN "TypeError"
    ELSE "none"

\* Client threads that call start_transcription concurrently.
Starters == {"starter1", "starter2"}

\* A client thread that has not called start_transcription.
NotCalled == [at |-> "out", valid |-> FALSE, saw |-> FALSE, outcome |-> "none", raced |-> FALSE]

\* validate_transcription_request has not run.
NotValidated == <<"not validated">>

\* No file at the path.
Absent == <<"absent">>

\* The file has not been read back.
NotRead == <<"not read">>

\* No update has been handed to _report_progress_throttled.
NoReport == [percentage |-> NoPct, delivered |-> FALSE, elapsed |-> FALSE]

\* The reports of the service are not timed.
NotTimed == [now |-> 0, last_progress_update |-> 0, next |-> 0, run |-> 0,
             delivered_at |-> 0, report |-> NoReport]

\* set_progress_callback, set_completion_callback: the registered callbacks
\* never raise (faulty: they may), and no error of theirs has been logged.
SoundCallbacks == [faulty |-> FALSE, logged |-> [w \in Workers |-> {}]]

\* No progress panel is followed.
NotShown == [pending |-> <<>>, applied |-> <<>>, next |-> 0, called |-> FALSE]

\* No opened audio source is followed.
NotOpened == [DURATION |-> 0, pos |-> 0, i |-> 0, windows |-> <<>>, at |-> "none"]

\* No call of FileManager.save_transcript is followed.
NotSaved == [text |-> <<>>, format |-> "txt", platform |-> "posix", file |-> Absent,
             returned |-> "none", read |-> NotRead]

\* threading.Thread.is_alive()
Alive(w) == w \in Workers /\ pc[w] \notin {"unborn", "dead"}

\* ---------------------------------------------------------- controller
_reset_state ==
    /\ is_running' = FALSE
    /\ current_request' = NoRequest
    /\ current_thread' = NoThread

\* The controller and the service as their constructors leave them.
Constructed ==
    /\ is_running = FALSE
    /\ current_request = NoRequest
    /\ current_thread = NoThread
    /\ thread_lock = Free
    /\ cancel_event = FALSE
    /\ temp_audio_file = NoFile
    /\ disk = {}
    /\ pc = [w \in Workers |-> "unborn"]
    /\ frame = [w \in Workers |-> EmptyFrame]
    /\ result = [w \in Workers |-> NoResult]
    /\ delivered = [w \in Workers |-> <<>>]
    /\ lastPct = [w \in Workers |-> NoPct]
    /\ escaped = [w \in Workers |-> "none"]
    /\ callerPc = "idle"
    /\ lastCall = <<"none", "none">>
    /\ callTick = FALSE
    /\ earlyCancel = {}
    /\ starters = [c \in Starters |-> NotCalled]
    /\ cleanups = {}

Init ==
    /\ usage \in {"controller", "direct"}
    /\ Constructed
    /\ headless = "off"
    /\ save = NotSaved
    /\ stream = NotOpened
    /\ throttle = NotTimed
    /\ panel = NotShown
    /\ callbacks = SoundCallbacks
    /\ request = NoRequest
    /\ errors = NotValidated

\* The run (worker) the next accepted start creates.
NextRun == CHOOSE w \in Workers : pc[w] = "unborn" /\ \A v \in Workers : v < w => pc[v] # "unborn"

\* start_transcription, rejected because a run is active:
\* handle_error(RuntimeError(..), category=, user_message=, show_dialog=),
\* then raise RuntimeError.
StartRejectedRunning ==
    LET raised == CallErrorHandler("handle_error",
                                   {"error", "category", "user_message", "show_dialog"})
    IN /\ lastCall' = (IF raised # "none" THEN <<"start", raised>> ELSE <<"start", "RuntimeError">>)
       /\ UNCHANGED <<ctrl, pc>>

\* start_transcription, rejected by validation: context={"request":
\* request.to_dict()} is evaluated, handle_error called, ValueError re-raised.
StartRejectedInvalid ==
    LET raised == IF "to_dict" \notin TranscriptionRequestAttrs THEN "AttributeError"
                  ELSE CallErrorHandler("handle_error",
                                        {"error", "category", "context", "show_dialog"})
    IN /\ lastCall' = (IF raised # "none" THEN <<"start", raised>> ELSE <<"start", "ValueError">>)
       /\ UNCHANGED <<ctrl, pc>>

\* start_transcription, accepted: the run state is set and the thread started.
StartAccepted ==
    /\ is_running' = TRUE
    /\ current_request' = NextRun
    /\ current_thread' = NextRun
    /\ pc' = [pc EXCEPT ![NextRun] = "spawned"]
    /\ lastCall' = <<"start", "accepted">>

\* start_transcription(request); valid: the request passes validation.
\* The whole body runs under _thread_lock.
start_transcription(valid) ==
    /\ usage = "controller"
    /\ thread_lock = Free
    /\ is_running \/ ~valid \/ \E w \in Workers : pc[w] = "unborn"
    /\ callTick' = ~callTick
    /\ IF is_running THEN StartRejectedRunning
       ELSE IF ~valid THEN StartRejectedInvalid
       ELSE StartAccepted
    /\ UNCHANGED <<usage, callbacks, panel, throttle, stream, save, headless, validation, cleanups, starters, thread_lock, engine, frame, result, delivered, lastPct,
                   escaped, callerPc, earlyCancel>>

\* ---- start_transcription step by step, with client threads that race.
\* A client thread calls start_transcription(request) and reaches the lock.
\* valid: its request passes validation.  Two calls race when one is made
\* while the other has not returned.
StartCall(c, valid) ==
    /\ usage = "controller"
    /\ starters[c].at = "out"
    /\ LET racing == {d \in Starters \ {c} : starters[d].at \in {"waiting", "locked"}}
       IN starters' = [d \in Starters |->
                          IF d = c THEN [starters[c] EXCEPT !.at = "waiting", !.valid = valid,
                                                            !.raced = racing # {}]
                          ELSE IF d \in racing THEN [starters[d] EXCEPT !.raced = TRUE]
                          ELSE starters[d]]
    /\ UNCHANGED <<usage, callbacks, panel, throttle, stream, save, headless, validation, cleanups, ctrl, thread_lock, engine, workerState, callerPc, callLog>>

\* with self._thread_lock: ... if self._is_running: the lock is taken and the
\* run flag tested.
StartAcquire(c) ==
    /\ starters[c].at = "waiting"
    /\ thread_lock = Free
    /\ thread_lock' = c
    /\ starters' = [starters EXCEPT ![c].at = "locked", ![c].saw = is_running]
    /\ UNCHANGED <<usage, callbacks, panel, throttle, stream, save, headless, validation, cleanups, ctrl, engine, workerState, callerPc, callLog>>

\* The rest of the critical section: rejection, or validation, the run state
\* set and the thread started; the lock is released on the way out.
StartBody(c) ==
    /\ starters[c].at = "locked"
    /\ thread_lock = c
    /\ ~starters[c].saw => \E w \in Workers : pc[w] = "unborn"
    /\ IF starters[c].saw THEN StartRejectedRunning
       ELSE IF ~starters[c].valid THEN StartRejectedInvalid
       ELSE StartAccepted
    /\ starters' = [starters EXCEPT ![c].at = "returned", ![c].outcome = lastCall'[2]]
    /\ thread_lock' = Free
    /\ callTick' = ~callTick
    /\ UNCHANGED <<usage, callbacks, panel, throttle, stream, save, headless, validation, cleanups, engine, frame, result, delivered, lastPct, escaped, callerPc,
                   earlyCancel>>

\* Runs that are live and have had no progress update delivered.
BeforeProgress ==
    {w \in Workers : pc[w] \notin {"unborn", "returned", "raised", "in_callback", "finally", "dead"}
                      /\ lastPct[w] = NoPct}

\* A cancel_transcription that sets the token before it tests the run flag.
CancelNotRunning_SetsToken ==
    /\ lastCall' = <<"cancel", "noop">>
    /\ cancel_event' = TRUE
    /\ UNCHANGED <<ctrl, thread_lock, temp_audio_file, disk, callerPc, earlyCancel>>

\* cancel_transcription with no run active: a warning is logged, nothing else.
CancelNotRunning ==
    /\ lastCall' = <<"cancel", "noop">>
    /\ UNCHANGED <<ctrl, thread_lock, engine, callerPc, earlyCancel>>

\* cancel_transcription, up to the join: the lock is taken, the token set.
CancelEnter ==
    /\ usage = "controller"
    /\ callerPc = "idle"
    /\ thread_lock = Free
    /\ callTick' = ~callTick
    /\ IF ~is_running
       THEN CancelNotRunning
       ELSE /\ cancel_event' = TRUE     \* transcription_service.cancel_transcription()
            /\ earlyCancel' = earlyCancel \cup (BeforeProgress \cap {current_thread})
            /\ UNCHANGED <<temp_audio_file, disk>>
            /\ IF Alive(current_thread)
               THEN /\ thread_lock' = Caller
                    /\ callerPc' = "joining"
                    /\ lastCall' = <<"cancel", "waiting">>
                    /\ UNCHANGED ctrl
               ELSE /\ _reset_state
                    /\ lastCall' = <<"cancel", "reset">>
                    /\ UNCHANGED <<thread_lock, callerPc>>
    /\ UNCHANGED <<usage, callbacks, panel, throttle, stream, save, headless, validation, cleanups, starters, workerState>>

\* cancel_transcription, from the join on: join(timeout=5.0) returns because
\* the thread ended or because the timeout elapsed; then the state is reset.
CancelJoinReturns(timedOut) ==
    /\ callerPc = "joining"
    /\ thread_lock = Caller
    /\ timedOut \/ ~Alive(current_thread)
    /\ lastCall' = (IF Alive(current_thread) THEN <<"cancel", "timeout">>
                    ELSE <<"cancel", "joined">>)
    /\ _reset_state
    /\ thread_lock' = Free
    /\ callerPc' = "idle"
    /\ UNCHANGED <<usage, callbacks, panel, throttle, stream, save, headless, validation, cleanups, starters, engine, workerState, callTick, earlyCancel>>

\* ------------------------------------------------------------- service
\* _cleanup_temp_files: remove the file _temp_audio_file names, if it exists.
_cleanup_temp_files ==
    IF temp_audio_file # NoFile /\ temp_audio_file \in disk
    THEN /\ disk' = disk \ {temp_audio_file}
         /\ temp_audio_file' = NoFile
    ELSE UNCHANGED <<disk, temp_audio_file>>

\* A throttle that lets no milestone through before its time.
Delivers_OnlyByTime(pct, timeOk) == timeOk

\* _report_progress_throttled: the update reaches the callback when enough
\* time has passed since the last one (timeOk) or it is a milestone.
Delivers(pct, timeOk) == timeOk \/ pct \in Milestones

Reported(last, pct, timeOk) == IF Delivers(pct, timeOk) THEN pct ELSE last

\* Whether a callback of the caller raises when it is invoked: a client that
\* calls the service itself passes any callback; the callbacks registered with
\* the controller raise only when they are faulty.
CallbackMayRaise == IF usage = "direct" \/ callbacks.faulty THEN BOOLEAN ELSE {FALSE}

\* A progress_wrapper that lets the error of the callback through.
progress_wrapper_Uncontained(raises) == raises

\* progress_wrapper(update) of the thread target: self.progress_callback is
\* called inside try/except Exception, so the wrapper itself does not raise.
progress_wrapper(raises) == FALSE

\* Whether the error of the caller's progress callback reaches
\* transcribe_video: its callback is the client's own or progress_wrapper.
Escapes(raises) == IF usage = "direct" THEN raises ELSE progress_wrapper(raises)

\* _logger.error("Error in progress callback: ..") of progress_wrapper.
LogProgressError(w, failed) ==
    IF usage # "direct" /\ failed
    THEN [callbacks EXCEPT !.logged[w] = @ \cup {"progress"}]
    ELSE callbacks

\* _logger.error("Error in completion callback: ..") of the thread target.
LogCompletionError(w, failed) ==
    IF failed THEN [callbacks EXCEPT !.logged[w] = @ \cup {"completion"}] ELSE callbacks

\* An error dialog can fail only where dialogs are shown: a headless run
\* initializes the error handler with show_dialogs=False.
DialogMayRaise == IF headless = "off" THEN BOOLEAN ELSE {FALSE}

\* source.DURATION of the audio file: direct calls, which run one at a time,
\* are tried with longer audio than the runs of the controller.
SourceDurations == IF usage = "direct" THEN DirectDurations ELSE Durations

\* Whether 100 ms have passed since the last delivered update.  Under the
\* controller the updates of the recognition stage are taken to be that far
\* apart; both answers are tried when the service is used directly.
ThrottleElapsed == IF usage = "direct" THEN BOOLEAN ELSE {TRUE}

\* _cleanup_video_resources(video, audio)
Closed(f) == [f EXCEPT !.video = FALSE, !.audio = FALSE]

\* transcribe_video returns res.
Return(w, f, res) ==
    /\ result' = [result EXCEPT ![w] = res]
    /\ frame' = [frame EXCEPT ![w] = LeftTranscribe(f)]
    /\ pc' = [pc EXCEPT ![w] = "returned"]

\* An exception reaches the outer handler of transcribe_video.
Unexpected(w, f, e) ==
    /\ frame' = [frame EXCEPT ![w] = [LeftRecognizer(f) EXCEPT !.pending = e]]
    /\ pc' = [pc EXCEPT ![w] = "tv_except"]
    /\ UNCHANGED result

\* A stage boundary: the milestone is reported, then the token is checked.
\* The cancelled branch releases the handles and, when dropTemp, the temp file.
Checkpoint(w, pct, next, raises, dropTemp) ==
    /\ lastPct' = [lastPct EXCEPT ![w] = Reported(lastPct[w], pct, FALSE)]
    /\ callbacks' = LogProgressError(w, raises)
    /\ IF Escapes(raises)
       THEN Unexpected(w, frame[w], "CallbackError") /\ UNCHANGED <<disk, temp_audio_file>>
       ELSE IF cancel_event
       THEN /\ Return(w, Closed(frame[w]), _create_cancelled_result)
            /\ IF dropTemp THEN _cleanup_temp_files ELSE UNCHANGED <<disk, temp_audio_file>>
       ELSE /\ pc' = [pc EXCEPT ![w] = next]
            /\ UNCHANGED <<frame, result, disk, temp_audio_file>>
    /\ UNCHANGED <<usage, panel, throttle, stream, save, headless, validation, cleanups, starters, ctrl, thread_lock, cancel_event, delivered, escaped,
                   callerPc, callLog>>

\* A stage failed: its handler releases the handles, reports the error
\* (the dialog may itself fail) and returns a failed result.
StageFailed(w, f, msg, dialogRaises) ==
    IF dialogRaises THEN Unexpected(w, f, "DialogError")
    ELSE Return(w, f, FailedResult(msg))

\* The thread starts running transcribe_video: the token is cleared first.
TranscribeEnter(w) ==
    /\ pc[w] = "spawned"
    /\ cancel_event' = FALSE
    /\ pc' = [pc EXCEPT ![w] = "tv_exists"]
    /\ UNCHANGED <<usage, callbacks, panel, throttle, stream, save, headless, validation, cleanups, starters, ctrl, thread_lock, temp_audio_file, disk, frame, result, delivered,
                   lastPct, escaped, callerPc, callLog>>

ValidateExistence(w, exists, dialogRaises) ==
    /\ pc[w] = "tv_exists"
    /\ IF exists
       THEN pc' = [pc EXCEPT ![w] = "p10"] /\ UNCHANGED <<frame, result>>
       ELSE StageFailed(w, frame[w], "Video file not found", dialogRaises)
    /\ UNCHANGED <<usage, callbacks, panel, throttle, stream, save, headless, validation, cleanups, starters, ctrl, thread_lock, engine, delivered, lastPct, escaped,
                   callerPc, callLog>>

ReportLoading(w, raises) ==
    /\ pc[w] = "p10"
    /\ Checkpoint(w, Pct(10), "load", raises, FALSE)

LoadVideo(w, ok, dialogRaises) ==
    /\ pc[w] = "load"
    /\ IF ok
       THEN /\ frame' = [frame EXCEPT ![w].video = TRUE]
            /\ pc' = [pc EXCEPT ![w] = "p30"]
            /\ UNCHANGED result
       ELSE StageFailed(w, frame[w], "Failed to load video", dialogRaises)
    /\ UNCHANGED <<usage, callbacks, panel, throttle, stream, save, headless, validation, cleanups, starters, ctrl, thread_lock, engine, delivered, lastPct, escaped,
                   callerPc, callLog>>

ReportExtracting(w, raises) ==
    /\ pc[w] = "p30"
    /\ Checkpoint(w, Pct(30), "extract", raises, FALSE)

\* Step 2: video.audio is taken; hasAudio: the video has an audio track
\* (otherwise ValueError("Video file contains no audio track") is raised).
ExtractAudio(w, hasAudio, dialogRaises) ==
    /\ pc[w] = "extract"
    /\ IF hasAudio
       THEN /\ frame' = [frame EXCEPT ![w].audio = TRUE]
            /\ pc' = [pc EXCEPT ![w] = "p50"]
            /\ UNCHANGED result
       ELSE StageFailed(w, Closed(frame[w]), "Failed to extract audio: Video file contains no audio track", dialogRaises)
    /\ UNCHANGED <<usage, callbacks, panel, throttle, stream, save, headless, validation, cleanups, starters, ctrl, thread_lock, engine, delivered, lastPct, escaped,
                   callerPc, callLog>>

ReportWriting(w, raises) ==
    /\ pc[w] = "p50"
    /\ Checkpoint(w, Pct(50), "write", raises, FALSE)

\* _create_temp_audio_file: a new file unless the service still names one.
NewTempFile(w) == IF temp_audio_file = NoFile THEN w ELSE temp_audio_file

\* Step 3: the temp file is created and the audio written to it.
WriteAudio(w, ok, dialogRaises) ==
    /\ pc[w] = "write"
    /\ temp_audio_file' = NewTempFile(w)
    /\ LET f == [frame[w] EXCEPT !.temp_audio_path = NewTempFile(w)]
       IN IF ok
          THEN /\ disk' = disk \cup {NewTempFile(w)}
               /\ frame' = [frame EXCEPT ![w] = Closed(f)]
               /\ pc' = [pc EXCEPT ![w] = "p80"]
               /\ UNCHANGED result
          ELSE /\ disk' = IF temp_audio_file = NoFile THEN disk \cup {w} ELSE disk
               /\ StageFailed(w, Closed(f), "Failed to write audio file", dialogRaises)
    /\ UNCHANGED <<usage, callbacks, panel, throttle, stream, save, headless, validation, cleanups, starters, ctrl, thread_lock, cancel_event, delivered, lastPct, escaped,
                   callerPc, callLog>>

ReportTranscribing(w, raises) ==
    /\ pc[w] = "p80"
    /\ Checkpoint(w, Pct(80), "rec_load", raises, TRUE)

\* Message of the result when the recognition stage raised.
RecognitionFailed(cause) ==
    CASE cause = "missing"   -> "Speech recognition failed: Temporary audio file not found"
      [] cause = "cancelled" -> "Speech recognition failed: Transcription was cancelled"
      [] cause = "unknown"   -> "Speech recognition failed: Google Speech Recognition could not understand the audio"
      [] cause = "request"   -> "Speech recognition failed: Could not request results from Google Speech Recognition service"
      [] cause = "callback"  -> "Speech recognition failed: CallbackError"

\* _transcribe_audio_file_optimized raised: the handler of step 4 removes the
\* temp file, reports (the dialog may fail) and returns a failed result.
RecognitionRaised(w, f, cause) ==
    /\ _cleanup_temp_files
    /\ \E dialogRaises \in DialogMayRaise : StageFailed(w, f, RecognitionFailed(cause), dialogRaises)

RecOutcomes == Texts \cup {"UnknownValueError", "RequestError"}

\* A chunk progress that runs down from 95% instead of up.
ChunkProgress_Falling(i, n) == Pct(95) - (i * Pct(5)) \div n

\* Progress reported before chunk i of n is recognized.
ChunkProgress(i, n) == Pct(95) + (i * Pct(5)) \div n

\* 82% is reported; the temp file is opened; the token is checked.
RecognizeOpen(w, timeOk, raises) ==
    /\ pc[w] = "rec_load"
    /\ lastPct' = [lastPct EXCEPT ![w] = Reported(lastPct[w], Pct(82), timeOk)]
    /\ callbacks' = LogProgressError(w, raises /\ Delivers(Pct(82), timeOk))
    /\ IF Escapes(raises) /\ Delivers(Pct(82), timeOk)
       THEN RecognitionRaised(w, frame[w], "callback")
       ELSE IF temp_audio_file = NoFile \/ temp_audio_file \notin disk
       THEN RecognitionRaised(w, frame[w], "missing")
       ELSE IF cancel_event
       THEN RecognitionRaised(w, frame[w], "cancelled")
       ELSE /\ pc' = [pc EXCEPT ![w] = "rec_prepare"]
            /\ UNCHANGED <<frame, result, disk, temp_audio_file>>
    /\ UNCHANGED <<usage, panel, throttle, stream, save, headless, validation, cleanups, starters, ctrl, thread_lock, cancel_event, delivered, escaped,
                   callerPc, callLog>>

\* 85%, ambient-noise calibration, 90%, then the duration d decides between
\* the whole-file fallback and the chunk loop.
RecognizePrepare(w, t1, t2, raises, d) ==
    /\ pc[w] = "rec_prepare"
    /\ lastPct' = [lastPct EXCEPT ![w] = Reported(Reported(lastPct[w], Pct(85), t1), Pct(90), t2)]
    /\ callbacks' = LogProgressError(w, raises /\ (Delivers(Pct(85), t1) \/ Delivers(Pct(90), t2)))
    /\ IF Escapes(raises) /\ (Delivers(Pct(85), t1) \/ Delivers(Pct(90), t2))
       THEN RecognitionRaised(w, frame[w], "callback")
       ELSE /\ frame' = [frame EXCEPT ![w].duration = d,
                                      ![w].num_chunks = IF d = NoDuration THEN 0
                                                        ELSE d \div ChunkDuration + 1,
                                      ![w].i = 0]
            /\ pc' = [pc EXCEPT ![w] = IF d = NoDuration THEN "rec_whole" ELSE "rec_chunk"]
            /\ UNCHANGED <<result, disk, temp_audio_file>>
    /\ UNCHANGED <<usage, panel, throttle, stream, save, headless, validation, cleanups, starters, ctrl, thread_lock, cancel_event, delivered, escaped,
                   callerPc, callLog>>

\* Duration unknown: the whole file is recognized in one call.
RecognizeWhole(w, outcome) ==
    /\ pc[w] = "rec_whole"
    /\ IF outcome \in Texts
       THEN /\ frame' = [frame EXCEPT ![w] = [LeftRecognizer(@) EXCEPT
                                                 !.transcript = Text(WholeFile + 1, outcome),
                                                 !.heard = Heard(frame[w], WholeFile, outcome)]]
            /\ pc' = [pc EXCEPT ![w] = "p100"]
            /\ UNCHANGED <<result, disk, temp_audio_file>>
       ELSE RecognitionRaised(w, [frame[w] EXCEPT !.heard = Heard(frame[w], WholeFile, outcome)],
                              IF outcome = "UnknownValueError" THEN "unknown" ELSE "request")
    /\ UNCHANGED <<usage, callbacks, panel, throttle, stream, save, headless, validation, cleanups, starters, ctrl, thread_lock, cancel_event, delivered, lastPct, escaped,
                   callerPc, callLog>>

\* A chunk loop whose head does not look at the token.
ChunkBegin_IgnoresToken(w, timeOk, raises) ==
    /\ pc[w] = "rec_chunk"
    /\ LET f == frame[w]
           pct == ChunkProgress(f.i, f.num_chunks)
       IN IF f.i * ChunkDuration >= f.duration
          THEN /\ pc' = [pc EXCEPT ![w] = "p100"]
               /\ frame' = [frame EXCEPT ![w] = [LeftRecognizer(f) EXCEPT
                                                    !.transcript = Join(f.transcript_parts)]]
               /\ UNCHANGED <<result, disk, temp_audio_file, lastPct, callbacks>>
          ELSE /\ lastPct' = [lastPct EXCEPT ![w] = Reported(lastPct[w], pct, timeOk)]
               /\ callbacks' = LogProgressError(w, raises /\ Delivers(pct, timeOk))
               /\ IF Escapes(raises) /\ Delivers(pct, timeOk)
                  THEN RecognitionRaised(w, f, "callback")
                  ELSE /\ pc' = [pc EXCEPT ![w] = "rec_call"]
                       /\ UNCHANGED <<frame, result, disk, temp_audio_file>>
    /\ UNCHANGED <<usage, panel, throttle, stream, save, headless, validation, cleanups, starters, ctrl, thread_lock, cancel_event, delivered, escaped,
                   callerPc, callLog>>

\* Head of the chunk loop for chunk i: token check, bounds, progress.
ChunkBegin(w, timeOk, raises) ==
    /\ pc[w] = "rec_chunk"
    /\ LET f == frame[w]
           pct == ChunkProgress(f.i, f.num_chunks)
       IN IF cancel_event
          THEN RecognitionRaised(w, f, "cancelled") /\ UNCHANGED <<lastPct, callbacks>>
          ELSE IF f.i * ChunkDuration >= f.duration
          THEN /\ pc' = [pc EXCEPT ![w] = "p100"]
               /\ frame' = [frame EXCEPT ![w] = [LeftRecognizer(f) EXCEPT
                                                    !.transcript = Join(f.transcript_parts)]]
               /\ UNCHANGED <<result, disk, temp_audio_file, lastPct, callbacks>>
          ELSE /\ lastPct' = [lastPct EXCEPT ![w] = Reported(lastPct[w], pct, timeOk)]
               /\ callbacks' = LogProgressError(w, raises /\ Delivers(pct, timeOk))
               /\ IF Escapes(raises) /\ Delivers(pct, timeOk)
                  THEN RecognitionRaised(w, f, "callback")
                  ELSE /\ pc' = [pc EXCEPT ![w] = "rec_call"]
                       /\ UNCHANGED <<frame, result, disk, temp_audio_file>>
    /\ UNCHANGED <<usage, panel, throttle, stream, save, headless, validation, cleanups, starters, ctrl, thread_lock, cancel_event, delivered, escaped,
                   callerPc, callLog>>

\* A chunk loop that puts each new text in front of the earlier ones.
ChunkRecognized_NewestFirst(w, outcome) ==
    /\ pc[w] = "rec_call"
    /\ LET f == [frame[w] EXCEPT !.heard = Heard(frame[w], frame[w].i + 1, outcome)]
           chunk_text == Text(f.i + 1, outcome)
           parts == IF outcome = "UnknownValueError" \/ Strip(chunk_text) = <<>>
                    THEN f.transcript_parts
                    ELSE <<Strip(chunk_text)>> \o f.transcript_parts
       IN IF outcome = "RequestError"
          THEN RecognitionRaised(w, f, "request")
          ELSE /\ frame' = [frame EXCEPT ![w] =
                             IF f.i + 1 < f.num_chunks
                             THEN [f EXCEPT !.transcript_parts = parts, !.i = f.i + 1]
                             ELSE [LeftRecognizer(f) EXCEPT !.transcript = Join(parts)]]
               /\ pc' = [pc EXCEPT ![w] = IF f.i + 1 < f.num_chunks THEN "rec_chunk" ELSE "p100"]
               /\ UNCHANGED <<result, disk, temp_audio_file>>
    /\ UNCHANGED <<usage, callbacks, panel, throttle, stream, save, headless, validation, cleanups, starters, ctrl, thread_lock, cancel_event, delivered, lastPct, escaped,
                   callerPc, callLog>>

\* A chunk loop that keeps an empty text for a chunk that was not understood.
ChunkRecognized_KeepsEmptyPart(w, outcome) ==
    /\ pc[w] = "rec_call"
    /\ LET f == [frame[w] EXCEPT !.heard = Heard(frame[w], frame[w].i + 1, outcome)]
           chunk_text == Text(f.i + 1, outcome)
           parts == IF outcome = "UnknownValueError" THEN Append(f.transcript_parts, <<>>)
                    ELSE IF Strip(chunk_text) = <<>> THEN f.transcript_parts
                    ELSE Append(f.transcript_parts, Strip(chunk_text))
       IN IF outcome = "RequestError"
          THEN RecognitionRaised(w, f, "request")
          ELSE /\ frame' = [frame EXCEPT ![w] =
                             IF f.i + 1 < f.num_chunks
                             THEN [f EXCEPT !.transcript_parts = parts, !.i = f.i + 1]
                             ELSE [LeftRecognizer(f) EXCEPT !.transcript = Join(parts)]]
               /\ pc' = [pc EXCEPT ![w] = IF f.i + 1 < f.num_chunks THEN "rec_chunk" ELSE "p100"]
               /\ UNCHANGED <<result, disk, temp_audio_file>>
    /\ UNCHANGED <<usage, callbacks, panel, throttle, stream, save, headless, validation, cleanups, starters, ctrl, thread_lock, cancel_event, delivered, lastPct, escaped,
                   callerPc, callLog>>

\* A chunk loop that lets UnknownValueError end the run, as RequestError does.
ChunkRecognized_UnknownAborts(w, outcome) ==
    /\ pc[w] = "rec_call"
    /\ LET f == [frame[w] EXCEPT !.heard = Heard(frame[w], frame[w].i + 1, outcome)]
           chunk_text == Text(f.i + 1, outcome)
           parts == IF outcome = "UnknownValueError" \/ Strip(chunk_text) = <<>>
                    THEN f.transcript_parts
                    ELSE Append(f.transcript_parts, Strip(chunk_text))
       IN IF outcome \in {"RequestError", "UnknownValueError"}
          THEN RecognitionRaised(w, f, IF outcome = "RequestError" THEN "request" ELSE "unknown")
          ELSE /\ frame' = [frame EXCEPT ![w] =
                             IF f.i + 1 < f.num_chunks
                             THEN [f EXCEPT !.transcript_parts = parts, !.i = f.i + 1]
                             ELSE [LeftRecognizer(f) EXCEPT !.transcript = Join(parts)]]
               /\ pc' = [pc EXCEPT ![w] = IF f.i + 1 < f.num_chunks THEN "rec_chunk" ELSE "p100"]
               /\ UNCHANGED <<result, disk, temp_audio_file>>
    /\ UNCHANGED <<usage, callbacks, panel, throttle, stream, save, headless, validation, cleanups, starters, ctrl, thread_lock, cancel_event, delivered, lastPct, escaped,
                   callerPc, callLog>>

\* recognize_google answers for chunk i; the loop moves on or ends.
ChunkRecognized(w, outcome) ==
    /\ pc[w] = "rec_call"
    /\ LET f == [frame[w] EXCEPT !.heard = Heard(frame[w], frame[w].i + 1, outcome)]
           chunk_text == Text(f.i + 1, outcome)
           parts == IF outcome = "UnknownValueError" \/ Strip(chunk_text) = <<>>
                    THEN f.transcript_parts
                    ELSE Append(f.transcript_parts, Strip(chunk_text))
       IN IF outcome = "RequestError"
          THEN RecognitionRaised(w, f, "request")
          ELSE /\ frame' = [frame EXCEPT ![w] =
                             IF f.i + 1 < f.num_chunks
                             THEN [f EXCEPT !.transcript_parts = parts, !.i = f.i + 1]
                             ELSE [LeftRecognizer(f) EXCEPT !.transcript = Join(parts)]]
               /\ pc' = [pc EXCEPT ![w] = IF f.i + 1 < f.num_chunks THEN "rec_chunk" ELSE "p100"]
               /\ UNCHANGED <<result, disk, temp_audio_file>>
    /\ UNCHANGED <<usage, callbacks, panel, throttle, stream, save, headless, validation, cleanups, starters, ctrl, thread_lock, cancel_event, delivered, lastPct, escaped,
                   callerPc, callLog>>

\* A last step that looks at the token once more after reporting 100%.
Complete_ChecksToken(w, raises) ==
    /\ pc[w] = "p100"
    /\ lastPct' = [lastPct EXCEPT ![w] = Reported(lastPct[w], Pct(100), FALSE)]
    /\ callbacks' = LogProgressError(w, raises)
    /\ IF Escapes(raises)
       THEN Unexpected(w, frame[w], "CallbackError") /\ UNCHANGED <<disk, temp_audio_file>>
       ELSE /\ _cleanup_temp_files
            /\ Return(w, frame[w],
                      IF cancel_event THEN _create_cancelled_result
                      ELSE TranscriptionResult(TRUE, frame[w].transcript, "none", NoRequest))
    /\ UNCHANGED <<usage, panel, throttle, stream, save, headless, validation, cleanups, starters, ctrl, thread_lock, cancel_event, delivered, escaped,
                   callerPc, callLog>>

\* Step 5: 100% is reported, the temp file removed, the success returned.
Complete(w, raises) ==
    /\ pc[w] = "p100"
    /\ lastPct' = [lastPct EXCEPT ![w] = Reported(lastPct[w], Pct(100), FALSE)]
    /\ callbacks' = LogProgressError(w, raises)
    /\ IF Escapes(raises)
       THEN Unexpected(w, frame[w], "CallbackError") /\ UNCHANGED <<disk, temp_audio_file>>
       ELSE /\ _cleanup_temp_files
            /\ Return(w, frame[w],
                      TranscriptionResult(TRUE, frame[w].transcript, "none", NoRequest))
    /\ UNCHANGED <<usage, panel, throttle, stream, save, headless, validation, cleanups, starters, ctrl, thread_lock, cancel_event, delivered, escaped,
                   callerPc, callLog>>

\* Outer handler of transcribe_video: temp file removed, then
\* handle_error(e, category=, user_message=, show_dialog=) and a failed result.
TranscribeExcept(w) ==
    /\ pc[w] = "tv_except"
    /\ _cleanup_temp_files
    /\ LET raised == CallErrorHandler("handle_error",
                                      {"error", "category", "user_message", "show_dialog"})
       IN IF raised # "none"
          THEN /\ frame' = [frame EXCEPT ![w] = [LeftTranscribe(@) EXCEPT !.pending = raised]]
               /\ pc' = [pc EXCEPT ![w] = "raised"]
               /\ UNCHANGED result
          ELSE Return(w, frame[w], FailedResult("Transcription failed"))
    /\ UNCHANGED <<usage, callbacks, panel, throttle, stream, save, headless, validation, cleanups, starters, ctrl, thread_lock, cancel_event, delivered, lastPct, escaped,
                   callerPc, callLog>>

\* ------------------------------------------------ controller's worker thread
\* FileManager.save_transcript(text, ...): the exception it raises, or "none".
\* An empty text is reported through error_handler.handle_validation_error.
SaveTranscriptRaises(text) ==
    IF text = <<>> THEN CallErrorHandler("handle_validation_error", {"show_dialog"})
    ELSE "none"

\* A thread target that invokes the completion callback and then has the
\* service report its last stage.
Notify_ThenReports(w, r) ==
    /\ result' = [result EXCEPT ![w] = r]
    /\ delivered' = [delivered EXCEPT ![w] = Append(@, r)]
    /\ pc' = [pc EXCEPT ![w] = "p100"]
    /\ UNCHANGED escaped

\* completion_callback(r) is invoked for run w.
Notify(w, r) ==
    /\ result' = [result EXCEPT ![w] = r]
    /\ delivered' = [delivered EXCEPT ![w] = Append(@, r)]
    /\ pc' = [pc EXCEPT ![w] = "in_callback"]
    /\ UNCHANGED escaped

\* except Exception of the thread target, entered with exception e:
\* handle_error(e, category=, user_message=, show_dialog=), then the error
\* result is handed to the completion callback.
ThreadExcept(w, e) ==
    LET raised == CallErrorHandler("handle_error",
                                   {"error", "category", "user_message", "show_dialog"})
    IN IF raised # "none"
       THEN /\ escaped' = [escaped EXCEPT ![w] = raised]
            /\ pc' = [pc EXCEPT ![w] = "finally"]
            /\ UNCHANGED <<result, delivered>>
       ELSE Notify(w, FailedResult(e))

\* After transcribe_video returned: a successful transcript is saved
\* (writeOk: the file could be written), a failed save downgrades the result
\* (its dialog may fail), and the completion callback is invoked.
SaveAndNotify(w, writeOk, dialogRaises) ==
    /\ usage = "controller"
    /\ pc[w] = "returned"
    /\ LET r == result[w]
           raised == SaveTranscriptRaises(r.transcript)
       IN IF ~r.success
          THEN Notify(w, r) /\ UNCHANGED frame
          ELSE IF raised # "none"
          THEN /\ frame' = [frame EXCEPT ![w].pending = raised]
               /\ ThreadExcept(w, raised)
          ELSE IF writeOk /\ r.transcript # <<>>
          THEN Notify(w, [r EXCEPT !.output_file_path = w]) /\ UNCHANGED frame
          ELSE IF dialogRaises
          THEN /\ frame' = [frame EXCEPT ![w].pending = "DialogError"]
               /\ ThreadExcept(w, "DialogError")
          ELSE /\ Notify(w, TranscriptionResult(FALSE, r.transcript,
                               "Transcription completed but failed to save", NoRequest))
               /\ UNCHANGED frame
    /\ UNCHANGED <<usage, callbacks, panel, throttle, stream, save, headless, validation, cleanups, starters, ctrl, thread_lock, engine, lastPct, callerPc, callLog>>

\* transcribe_video raised into the thread target.
TranscribeRaised(w) ==
    /\ usage = "controller"
    /\ pc[w] = "raised"
    /\ ThreadExcept(w, frame[w].pending)
    /\ UNCHANGED <<usage, callbacks, panel, throttle, stream, save, headless, validation, cleanups, starters, ctrl, thread_lock, engine, frame, lastPct, callerPc, callLog>>

\* A thread target whose last step ends the thread without the finally block.
WorkerFinally_Skipped(w, raises) ==
    /\ pc[w] \in {"in_callback", "finally"}
    /\ pc' = [pc EXCEPT ![w] = "dead"]
    /\ UNCHANGED <<usage, callbacks, panel, throttle, stream, save, headless, validation, cleanups, ctrl, thread_lock, engine, frame, result,
                   delivered, lastPct, escaped, callerPc, callLog, starters>>

\* The completion callback has returned, or raised (raises), which is only
\* logged, or the handler was left by an exception.  finally: file_manager's
\* cleanup_temp_files (it tracks none of the service's files), then
\* _reset_state under the lock; the thread ends and its locals go.
WorkerFinally(w, raises) ==
    /\ pc[w] \in {"in_callback", "finally"}
    /\ thread_lock = Free
    /\ callbacks' = LogCompletionError(w, raises /\ pc[w] = "in_callback")
    /\ _reset_state
    /\ pc' = [pc EXCEPT ![w] = "dead"]
    /\ frame' = [frame EXCEPT ![w] = [EmptyFrame EXCEPT !.video = frame[w].video,
                                                        !.audio = frame[w].audio,
                                                        !.pending = frame[w].pending]]
    /\ result' = [result EXCEPT ![w] = NoResult]
    /\ lastPct' = [lastPct EXCEPT ![w] = NoPct]
    /\ earlyCancel' = earlyCancel \ {w}
    /\ cleanups' = cleanups \cup {w}
    /\ UNCHANGED <<usage, panel, throttle, stream, save, headless, validation, starters, thread_lock, engine, delivered, escaped,
                   callerPc, lastCall, callTick>>

\* ------------------------------------------------------- direct use
\* A client calls service.transcribe_video(path, callback) itself.
DirectCall ==
    /\ usage = "direct"
    /\ \A w \in Workers : ~Alive(w)
    /\ \E w \in Workers : pc[w] = "unborn"
    /\ pc' = [pc EXCEPT ![NextRun] = "spawned"]
    /\ UNCHANGED <<usage, callbacks, panel, throttle, stream, save, headless, validation, cleanups, starters, ctrl, thread_lock, engine, frame, result, delivered, lastPct,
                   escaped, callerPc, callLog>>

\* The client receives the result of transcribe_video, or its exception.
DirectReturn(w) ==
    /\ usage = "direct"
    /\ pc[w] \in {"returned", "raised"}
    /\ pc' = [pc EXCEPT ![w] = "dead"]
    /\ escaped' = [escaped EXCEPT ![w] = IF pc[w] = "raised" THEN frame[w].pending ELSE @]
    /\ earlyCancel' = earlyCancel \ {w}
    /\ frame' = [frame EXCEPT ![w].heard = <<>>]
    /\ UNCHANGED <<usage, callbacks, panel, throttle, stream, save, headless, validation, cleanups, starters, ctrl, thread_lock, engine, result, delivered, lastPct,
                   callerPc, lastCall, callTick>>

\* TranscriptionService.cancel_transcription called by the client.
ServiceCancel ==
    /\ usage = "direct"
    /\ ~cancel_event
    /\ cancel_event' = TRUE
    /\ earlyCancel' = earlyCancel \cup BeforeProgress
    /\ UNCHANGED <<usage, callbacks, panel, throttle, stream, save, headless, validation, cleanups, starters, ctrl, thread_lock, temp_audio_file, disk, workerState,
                   callerPc, lastCall, callTick>>

\* ------------------------------------------------------------------ Next
transcribe_video(w) ==
    \/ TranscribeEnter(w)
    \/ \E e \in BOOLEAN, d \in DialogMayRaise : ValidateExistence(w, e, d)
    \/ \E r \in CallbackMayRaise : ReportLoading(w, r)
    \/ \E ok \in BOOLEAN, d \in DialogMayRaise : LoadVideo(w, ok, d)
    \/ \E r \in CallbackMayRaise : ReportExtracting(w, r)
    \/ \E a \in BOOLEAN, d \in DialogMayRaise : ExtractAudio(w, a, d)
    \/ \E r \in CallbackMayRaise : ReportWriting(w, r)
    \/ \E ok \in BOOLEAN, d \in DialogMayRaise : WriteAudio(w, ok, d)
    \/ \E r \in CallbackMayRaise : ReportTranscribing(w, r)
    \/ \E r \in CallbackMayRaise : Complete(w, r)
    \/ TranscribeExcept(w)

_transcribe_audio_file_optimized(w) ==
    \/ \E t \in ThrottleElapsed, r \in CallbackMayRaise : RecognizeOpen(w, t, r)
    \/ \E t1, t2 \in ThrottleElapsed, r \in CallbackMayRaise, d \in SourceDurations :
           RecognizePrepare(w, t1, t2, r, d)
    \/ \E o \in RecOutcomes : RecognizeWhole(w, o)
    \/ \E t \in ThrottleElapsed, r \in CallbackMayRaise : ChunkBegin(w, t, r)
    \/ \E o \in RecOutcomes : ChunkRecognized(w, o)

_transcription_thread_target(w) ==
    \/ \E ok \in BOOLEAN, d \in DialogMayRaise : SaveAndNotify(w, ok, d)
    \/ TranscribeRaised(w)
    \/ \E r \in CallbackMayRaise : WorkerFinally(w, r)

Next ==
    \/ \E v \in BOOLEAN : start_transcription(v)
    \/ CancelEnter
    \/ \E t \in BOOLEAN : CancelJoinReturns(t)
    \/ DirectCall
    \/ ServiceCancel
    \/ \E w \in Workers : DirectReturn(w)
    \/ \E w \in Workers : transcribe_video(w)
    \/ \E w \in Workers : _transcribe_audio_file_optimized(w)
    \/ \E w \in Workers : _transcription_thread_target(w)

Spec == Init /\ [][Next]_vars

\* A client without a controller calls transcribe_video itself, one call
\* after another, and may cancel through the service.
InitDirect == Init /\ usage = "direct"

NextDirect ==
    \/ DirectCall
    \/ ServiceCancel
    \/ \E w \in Workers : DirectReturn(w)
    \/ \E w \in Workers : transcribe_video(w)
    \/ \E w \in Workers : _transcribe_audio_file_optimized(w)

SpecDirect == InitDirect /\ [][NextDirect]_vars

\* Two client threads race to start a run on an idle controller; the workers
\* they start run as in Spec.
InitStartRace == Init /\ usage = "controller"

NextStartRace ==
    \/ \E c \in Starters, v \in BOOLEAN : StartCall(c, v)
    \/ \E c \in Starters : StartAcquire(c)
    \/ \E c \in Starters : StartBody(c)
    \/ \E w \in Workers : transcribe_video(w)
    \/ \E w \in Workers : _transcribe_audio_file_optimized(w)
    \/ \E w \in Workers : _transcription_thread_target(w)

SpecStartRace == InitStartRace /\ [][NextStartRace]_vars

\* The controller with its threads scheduled and its runs one after another:
\* the client starts and cancels at will but starts a new run only when no
\* worker of an earlier run is left; a worker thread that can take a step
\* takes it (every call it makes returns), and a join that can return does.
InitSerial == Init /\ usage = "controller"

NextSerial ==
    \/ \E v \in BOOLEAN : /\ start_transcription(v)
                          /\ lastCall'[2] = "accepted" => \A w \in Workers : ~Alive(w)
    \/ CancelEnter
    \/ \E t \in BOOLEAN : CancelJoinReturns(t)
    \/ \E w \in Workers : transcribe_video(w)
    \/ \E w \in Workers : _transcribe_audio_file_optimized(w)
    \/ \E w \in Workers : _transcription_thread_target(w)

Fairness ==
    /\ \A w \in Workers : WF_vars(transcribe_video(w))
    /\ \A w \in Workers : WF_vars(_transcribe_audio_file_optimized(w))
    /\ \A w \in Workers : WF_vars(_transcription_thread_target(w))
    /\ WF_vars(\E t \in BOOLEAN : CancelJoinReturns(t))

SpecSerialFair == InitSerial /\ [][NextSerial]_vars /\ Fairness

\* --------------------------------------------------------- headless run
\* Keyword parameters TranscriptionService.__init__ accepts besides self.
ServiceInitParams == {}

\* main() builds VideoToTextApp(headless=True, ..) and calls run(), whose
\* startup() calls initialize(); _initialize_services constructs
\* TranscriptionService(settings=settings).  initialize() prints an exception
\* of a headless start and leaves the process with sys.exit(1).
HeadlessInitialize ==
    /\ headless = "main"
    /\ headless' = IF {"settings"} \subseteq ServiceInitParams THEN "_run_headless" ELSE "exit 1"
    /\ UNCHANGED <<usage, callbacks, panel, throttle, stream, save, ctrl, thread_lock, engine, workerState, callerPc, callLog, starters,
                   validation, cleanups>>

\* _run_headless on an initialized application, up to its wait: the input
\* file is looked up (exists), the request built, the callbacks set and
\* start_transcription called (valid: the request passes validation); an
\* exception of the start is printed and the process exits with 1.
HeadlessStart(exists, valid) ==
    /\ usage = "controller"
    /\ headless = "_run_headless"
    /\ thread_lock = Free
    /\ IF ~exists
       THEN /\ headless' = "exit 1"
            /\ UNCHANGED <<ctrl, pc, lastCall, callTick>>
       ELSE /\ callTick' = ~callTick
            /\ IF is_running THEN StartRejectedRunning
               ELSE IF ~valid THEN StartRejectedInvalid
               ELSE StartAccepted
            /\ headless' = IF lastCall'[2] = "accepted" THEN "waiting" ELSE "exit 1"
    /\ UNCHANGED <<usage, callbacks, panel, throttle, stream, save, validation, cleanups, starters, thread_lock, engine, frame, result,
                   delivered, lastPct, escaped, callerPc, earlyCancel>>

\* completion_event.wait(timeout=1.0) returns True once completion_callback
\* has stored the result and set the event: exit 0 for a success, else 1.
HeadlessWake ==
    /\ headless = "waiting"
    /\ \E w \in Workers :
          /\ delivered[w] # <<>>
          /\ headless' = IF delivered[w][Len(delivered[w])].success THEN "exit 0" ELSE "exit 1"
    /\ UNCHANGED <<usage, callbacks, panel, throttle, stream, save, ctrl, thread_lock, engine, workerState, callerPc, callLog, starters,
                   validation, cleanups>>

\* A headless run, entered at main() or at _run_headless of an initialized
\* application; its worker thread runs as in Spec.
InitHeadless ==
    /\ usage = "controller"
    /\ Constructed
    /\ headless \in {"main", "_run_headless"}
    /\ save = NotSaved
    /\ stream = NotOpened
    /\ throttle = NotTimed
    /\ panel = NotShown
    /\ callbacks = SoundCallbacks
    /\ request = NoRequest
    /\ errors = NotValidated

\* The steps of the worker thread in a headless run.  No exception reaches
\* the outer handler of transcribe_video or leaves transcribe_video there:
\* progress_wrapper contains the errors of the callback and no dialog is shown.
HeadlessWorker(w) ==
    \/ TranscribeEnter(w)
    \/ \E e \in BOOLEAN, d \in DialogMayRaise : ValidateExistence(w, e, d)
    \/ \E r \in CallbackMayRaise : ReportLoading(w, r)
    \/ \E ok \in BOOLEAN, d \in DialogMayRaise : LoadVideo(w, ok, d)
    \/ \E r \in CallbackMayRaise : ReportExtracting(w, r)
    \/ \E a \in BOOLEAN, d \in DialogMayRaise : ExtractAudio(w, a, d)
    \/ \E r \in CallbackMayRaise : ReportWriting(w, r)
    \/ \E ok \in BOOLEAN, d \in DialogMayRaise : WriteAudio(w, ok, d)
    \/ \E r \in CallbackMayRaise : ReportTranscribing(w, r)
    \/ _transcribe_audio_file_optimized(w)
    \/ \E r \in CallbackMayRaise : Complete(w, r)
    \/ \E ok \in BOOLEAN, d \in DialogMayRaise : SaveAndNotify(w, ok, d)
    \/ \E r \in CallbackMayRaise : WorkerFinally(w, r)

NextHeadless ==
    \/ HeadlessInitialize
    \/ \E e, v \in BOOLEAN : HeadlessStart(e, v)
    \/ HeadlessWake
    \/ \E w \in Workers : HeadlessWorker(w)

SpecHeadless == InitHeadless /\ [][NextHeadless]_vars

\* -------------------------------------------------- request validation
\* What a video path can name: no path given; a missing entry or a directory
\* (with a supported extension or not); a file with its extension, its read
\* permission, its size class and whether stat() fails on it.
VideoFiles ==
    {[given |-> FALSE, kind |-> "missing", supported |-> FALSE, readable |-> FALSE,
      size |-> "none", stat_fails |-> FALSE]}
    \cup {[given |-> TRUE, kind |-> k, supported |-> x, readable |-> FALSE,
           size |-> "none", stat_fails |-> FALSE] : k \in {"missing", "dir"}, x \in BOOLEAN}
    \cup {[given |-> TRUE, kind |-> "file", supported |-> x, readable |-> r,
           size |-> z, stat_fails |-> f] :
              x \in BOOLEAN, r \in BOOLEAN, z \in {"zero", "small", "ok", "large"},
              f \in BOOLEAN}

\* What an output path can name: its parent directory, the entry at the path
\* and the file name.
OutputPaths ==
    {[given |-> FALSE, parent |-> "writable", target |-> "absent", name |-> "empty"]}
    \cup {[given |-> TRUE, parent |-> d, target |-> "absent", name |-> n] :
              d \in {"writable", "readonly", "creatable", "uncreatable"},
              n \in {"ok", "empty", "bad_chars", "too_long"}}
    \cup {[given |-> TRUE, parent |-> d, target |-> t, name |-> "ok"] :
              d \in {"writable", "readonly"},
              t \in {"dir", "file_writable", "file_readonly"}}

OutputFormats == {"", "txt", "json", "TXT", "pdf"}

\* Types of the value given as verbose.
VerboseTypes == {"bool", "int", "str"}

Requests ==
    [video_path : VideoFiles, output_path : OutputPaths, output_format : OutputFormats,
     verbose : VerboseTypes]

\* str.lower()
Lower(x) == IF x = "TXT" THEN "txt" ELSE x

VALID_OUTPUT_FORMATS == {"txt", "json"}

\* ValidationResult.error_message of a passed validation.
Valid == "valid"

\* FileValidator.validate_video_file: the first failing check ends it.
validate_video_file(v) ==
    IF ~v.given THEN "No file path provided"
    ELSE IF v.kind = "missing" THEN "File does not exist"
    ELSE IF v.kind # "file" THEN "Path is not a file"
    ELSE IF ~v.supported THEN "Unsupported file format"
    ELSE IF ~v.readable THEN "File is not readable"
    ELSE IF v.stat_fails THEN "System error accessing file"
    ELSE IF v.size = "zero" THEN "File is empty"
    ELSE IF v.size = "small" THEN "File is too small"
    ELSE IF v.size = "large" THEN "File is too large"
    ELSE Valid

\* FileValidator.validate_output_path: the first failing check ends it.
validate_output_path(o) ==
    IF ~o.given THEN "No output path provided"
    ELSE IF o.parent = "uncreatable" THEN "Cannot create output directory"
    ELSE IF o.parent = "readonly" THEN "Output directory is not writable"
    ELSE IF o.target = "dir" THEN "Output path exists but is not a file"
    ELSE IF o.target = "file_readonly" THEN "Cannot overwrite existing file"
    ELSE IF o.target = "file_writable" THEN Valid
    ELSE IF o.name = "empty" THEN "Invalid filename"
    ELSE IF o.name = "bad_chars" THEN "Filename contains invalid characters"
    ELSE IF o.name = "too_long" THEN "Filename is too long"
    ELSE Valid

\* SettingsValidator.validate_output_format
validate_output_format(f) ==
    IF f = "" THEN "Output format not specified"
    ELSE IF Lower(f) \notin VALID_OUTPUT_FORMATS THEN "Invalid output format"
    ELSE Valid

\* SettingsValidator.validate_verbose_mode
validate_verbose_mode(t) ==
    IF t # "bool" THEN "Verbose mode must be boolean" ELSE Valid

\* errors.append(f"{label}: {result.error_message}") when the result is not valid
AppendError(errs, label, message) ==
    IF message = Valid THEN errs ELSE Append(errs, <<label, message>>)

\* validate_transcription_request: the list of error messages it returns.
validate_transcription_request(r) ==
    AppendError(
        AppendError(
            AppendError(
                AppendError(<<>>, "Video file", validate_video_file(r.video_path)),
                "Output path", validate_output_path(r.output_path)),
            "Output format", validate_output_format(r.output_format)),
        "Verbose mode", validate_verbose_mode(r.verbose))

\* _validate_transcription_request runs the validation on the request.
ValidateRequest ==
    /\ errors = NotValidated
    /\ errors' = validate_transcription_request(request)
    /\ UNCHANGED <<usage, callbacks, panel, throttle, stream, save, headless, ctrl, thread_lock, engine, workerState, callerPc, callLog,
                   starters, cleanups, request>>

\* A request of any kind is validated.
InitValidate ==
    /\ usage = "controller"
    /\ headless = "off"
    /\ save = NotSaved
    /\ stream = NotOpened
    /\ throttle = NotTimed
    /\ panel = NotShown
    /\ callbacks = SoundCallbacks
    /\ Constructed
    /\ request \in Requests
    /\ errors = NotValidated

NextValidate == ValidateRequest

SpecValidate == InitValidate /\ [][NextValidate]_vars

\* ------------------------------------------------ output path extension
\* A file name as its dot-separated pieces: <<"out", "TXT">> is out.TXT.
FileNames ==
    {<<"out">>, <<"out", "txt">>, <<"out", "TXT">>, <<"out", "json">>, <<"out", "tar", "gz">>}

\* The formats a request that passes validation can carry.
AcceptedFormats == {f \in OutputFormats : validate_output_format(f) = Valid}

\* pathlib: Path.suffix of a name without extension.
NoSuffix == ""

\* pathlib: Path.suffix, without its dot.
suffix(n) == IF Len(n) > 1 THEN n[Len(n)] ELSE NoSuffix

\* pathlib: Path.with_suffix replaces the last extension or adds one.
with_suffix(n, s) == IF Len(n) > 1 THEN [n EXCEPT ![Len(n)] = s] ELSE Append(n, s)

\* ensure_extension leaving every name that has an extension as it is.
ensure_extension_KeepsOtherSuffix(filepath, format) ==
    IF suffix(filepath) = NoSuffix THEN with_suffix(filepath, Lower(format)) ELSE filepath

\* FileManager.ensure_extension
ensure_extension(filepath, format) ==
    LET format_lower == Lower(format)
    IN IF format_lower = "txt" /\ Lower(suffix(filepath)) # "txt"
          THEN with_suffix(filepath, "txt")
       ELSE IF format_lower = "json" /\ Lower(suffix(filepath)) # "json"
          THEN with_suffix(filepath, "json")
       ELSE filepath

\* The requests whose output path and format start_transcription accepts;
\* the fields ensure_extension reads.
AcceptedRequests == [output_path : FileNames, output_format : AcceptedFormats]

\* start_transcription(request) with a request that passes validation: the
\* request's output_path is replaced in place by ensure_extension's answer
\* before the request is stored and handed to the thread.
StartWithRequest ==
    /\ usage = "controller"
    /\ thread_lock = Free
    /\ is_running \/ \E w \in Workers : pc[w] = "unborn"
    /\ callTick' = ~callTick
    /\ IF is_running THEN StartRejectedRunning /\ UNCHANGED request
       ELSE /\ request' = [request EXCEPT !.output_path =
                               ensure_extension(request.output_path, request.output_format)]
            /\ StartAccepted
    /\ UNCHANGED <<usage, callbacks, panel, throttle, stream, save, headless, errors, cleanups, starters, thread_lock, engine, frame, result, delivered, lastPct,
                   escaped, callerPc, earlyCancel>>

\* A client holds one request of any accepted kind and starts runs with it.
InitExtension ==
    /\ usage = "controller"
    /\ headless = "off"
    /\ save = NotSaved
    /\ stream = NotOpened
    /\ throttle = NotTimed
    /\ panel = NotShown
    /\ callbacks = SoundCallbacks
    /\ Constructed
    /\ request \in AcceptedRequests
    /\ errors = NotValidated

NextExtension ==
    \/ StartWithRequest
    \/ \E w \in Workers : transcribe_video(w)
    \/ \E w \in Workers : _transcribe_audio_file_optimized(w)
    \/ \E w \in Workers : _transcription_thread_target(w)

SpecExtension == InitExtension /\ [][NextExtension]_vars

\* ------------------------------------------- FileManager.save_transcript
\* Longest transcript text that is saved.
MaxTextLen == 3

\* Characters of a transcript text: a letter, a line feed, a carriage return.
Chars == {"a", "LF", "CR"}

TranscriptTexts == UNION {[1..n -> Chars] : n \in 0..MaxTextLen}

\* os.name of the platform the file is written on.
Platforms == {"posix", "nt"}

\* os.linesep
linesep(p) == IF p = "nt" THEN <<"CR", "LF">> ELSE <<"LF">>

\* f.write(text) on a file opened with open(path, 'w', encoding='utf-8'):
\* every line feed is written as os.linesep.
RECURSIVE WriteText(_, _)
WriteText(t, p) ==
    IF t = <<>> THEN <<>>
    ELSE (IF Head(t) = "LF" THEN linesep(p) ELSE <<Head(t)>>) \o WriteText(Tail(t), p)

\* open(path, encoding='utf-8').read() of such a file: CR LF and CR are read
\* as a line feed.
RECURSIVE ReadText(_)
ReadText(b) ==
    IF b = <<>> THEN <<>>
    ELSE IF Head(b) = "CR"
         THEN <<"LF">> \o ReadText(IF Len(b) > 1 /\ b[2] = "LF" THEN Tail(Tail(b)) ELSE Tail(b))
    ELSE <<Head(b)>> \o ReadText(Tail(b))

\* What the path holds before the call: nothing, or an older transcript.
OlderFiles == {Absent, <<"a", "a">>}

\* save_transcript(text, path, format) about to be called on a platform.
SaveCalls ==
    [text : TranscriptTexts, format : AcceptedFormats, platform : Platforms, file : OlderFiles,
     returned : {"not called"}, read : {NotRead}]

\* The JSON document _save_as_json writes for a text.
JsonDocument(t) == <<"{">> \o t \o <<"}">>

\* FileManager.save_transcript / _save_as_txt / _save_as_json for call c;
\* writeOk: open(path, 'w') succeeds (an OSError is handled and gives False).
SaveTranscriptBody(c, writeOk) ==
    IF c.text = <<>>
    THEN LET raised == CallErrorHandler("handle_validation_error", {"show_dialog"})
         IN [c EXCEPT !.returned = IF raised # "none" THEN raised ELSE "False"]
    ELSE IF ~writeOk THEN [c EXCEPT !.returned = "False"]
    ELSE IF Lower(c.format) = "txt"
    THEN [c EXCEPT !.file = WriteText(c.text, c.platform), !.returned = "True"]
    ELSE [c EXCEPT !.file = JsonDocument(c.text), !.returned = "True"]

\* The client calls save_transcript.
save_transcript(writeOk) ==
    /\ save.returned = "not called"
    /\ save' = SaveTranscriptBody(save, writeOk)
    /\ UNCHANGED <<usage, callbacks, panel, throttle, stream, headless, ctrl, thread_lock, engine, workerState, callerPc, callLog,
                   starters, validation, cleanups>>

\* The client reads the file back as text after the call.
ReadBack ==
    /\ save.returned \notin {"none", "not called"}
    /\ save.read = NotRead
    /\ save.file # Absent
    /\ save' = [save EXCEPT !.read = ReadText(save.file)]
    /\ UNCHANGED <<usage, callbacks, panel, throttle, stream, headless, ctrl, thread_lock, engine, workerState, callerPc, callLog,
                   starters, validation, cleanups>>

\* A client saves a transcript of any kind.
InitSave ==
    /\ usage = "controller"
    /\ headless = "off"
    /\ Constructed
    /\ request = NoRequest
    /\ errors = NotValidated
    /\ save \in SaveCalls
    /\ stream = NotOpened
    /\ throttle = NotTimed
    /\ panel = NotShown
    /\ callbacks = SoundCallbacks

NextSave ==
    \/ \E k \in BOOLEAN : save_transcript(k)
    \/ ReadBack

SpecSave == InitSave /\ [][NextSave]_vars

\* ------------------------------------------------------- cancel's wait
\* The thread of run w can take a step of its own.
CanStep(w) ==
    ENABLED (transcribe_video(w) \/ _transcribe_audio_file_optimized(w)
             \/ _transcription_thread_target(w))

\* join(timeout=5.0) with the 5 s ample for a worker that is not held up:
\* the wait ends when the thread has ended, and by the timeout only once the
\* thread can take no step.
PatientJoinReturns(timedOut) ==
    /\ CancelJoinReturns(timedOut)
    /\ (timedOut /\ Alive(current_thread)) => ~CanStep(current_thread)

\* The controller as in Spec, with every wait of cancel as favourable to the
\* worker as the scheduling allows.
InitPatientJoin == Init /\ usage = "controller"

NextPatientJoin ==
    \/ \E v \in BOOLEAN : start_transcription(v)
    \/ CancelEnter
    \/ \E t \in BOOLEAN : PatientJoinReturns(t)
    \/ \E w \in Workers : transcribe_video(w)
    \/ \E w \in Workers : _transcribe_audio_file_optimized(w)
    \/ \E w \in Workers : _transcription_thread_target(w)

SpecPatientJoin == InitPatientJoin /\ [][NextPatientJoin]_vars

\* ---------------------------------------------- windows of the chunk loop
\* Durations of the opened audio source, in seconds.
MaxSourceUnits == 36
SourceUnit == 5
KnownDurations == {u * SourceUnit : u \in 0..MaxSourceUnits}

\* Positions in the audio are counted in ticks of half a second, the length
\* of the ambient-noise calibration.
TicksPerSecond == 2
Ticks(seconds) == seconds * TicksPerSecond
AmbientNoiseTicks == 1

Min(a, b) == IF a < b THEN a ELSE b

\* recognizer.record(source, duration, offset) on a source of length len that
\* has been read up to pos: the reading goes on from pos, offset is skipped,
\* duration is kept.  The interval that is kept, <<from, to>>.
Recorded(pos, len, duration, offset) ==
    LET from == Min(pos + offset, len)
    IN <<from, Min(from + duration, len)>>

\* An audio source of known duration, just opened.
OpenedSources ==
    [DURATION : KnownDurations, pos : {0}, i : {0}, windows : {<<>>}, at : {"opened"}]

\* recognizer.adjust_for_ambient_noise(source, duration=0.5) reads the first
\* half second of the source.
AdjustForAmbientNoise ==
    /\ stream.at = "opened"
    /\ stream' = [stream EXCEPT !.pos = Min(@ + AmbientNoiseTicks, Ticks(stream.DURATION)),
                                !.at = "loop"]
    /\ UNCHANGED <<usage, callbacks, panel, throttle, save, headless, ctrl, thread_lock, engine, workerState, callerPc, callLog,
                   starters, validation, cleanups>>

\* One pass of `for i in range(num_chunks)` with the token clear: the
\* boundaries are computed, the loop is left at the end of the audio, or the
\* chunk is recorded and sent to the recognition service.
RecordChunk ==
    /\ stream.at = "loop"
    /\ LET source_duration == stream.DURATION
           num_chunks == source_duration \div ChunkDuration + 1
           start_time == stream.i * ChunkDuration
           end_time == Min((stream.i + 1) * ChunkDuration, source_duration)
           audio_data == Recorded(stream.pos, Ticks(source_duration),
                                  Ticks(end_time - start_time), Ticks(start_time))
       IN IF stream.i >= num_chunks \/ start_time >= source_duration
          THEN stream' = [stream EXCEPT !.at = "joined"]
          ELSE stream' = [stream EXCEPT !.windows = Append(@, audio_data),
                                        !.pos = audio_data[2],
                                        !.i = @ + 1]
    /\ UNCHANGED <<usage, callbacks, panel, throttle, save, headless, ctrl, thread_lock, engine, workerState, callerPc, callLog,
                   starters, validation, cleanups>>

\* The recognizer opens an audio file of any known duration.
InitWindows ==
    /\ usage = "direct"
    /\ headless = "off"
    /\ Constructed
    /\ request = NoRequest
    /\ errors = NotValidated
    /\ save = NotSaved
    /\ stream \in OpenedSources
    /\ throttle = NotTimed
    /\ panel = NotShown
    /\ callbacks = SoundCallbacks

NextWindows == AdjustForAmbientNoise \/ RecordChunk

SpecWindows == InitWindows /\ [][NextWindows]_vars

\* -------------------------------------------------- timing of the reports
\* The clock counts ticks of 50 ms up to MaxClock; _progress_update_interval
\* is 0.1 s.
MaxClock == 6
ProgressUpdateTicks == 2

\* The updates one run with two chunks hands to _report_progress_throttled,
\* in the order of transcribe_video.
Emissions ==
    <<Pct(10), Pct(30), Pct(50), Pct(80), Pct(82), Pct(85), Pct(90),
      ChunkProgress(0, 2), ChunkProgress(1, 2), Pct(100)>>

\* time.time() advances.
ClockTick ==
    /\ throttle.run >= 1
    /\ throttle.now < MaxClock
    /\ throttle' = [throttle EXCEPT !.now = @ + 1]
    /\ UNCHANGED <<usage, callbacks, panel, save, stream, headless, ctrl, thread_lock, engine, workerState, callerPc,
                   callLog, starters, validation, cleanups>>

\* The next run on the same service, if one is left.
NextRunOf(t) ==
    IF t.run < MaxRuns THEN [t EXCEPT !.next = 1, !.run = @ + 1]
    ELSE [t EXCEPT !.next = Len(Emissions) + 1]

\* _report_progress_throttled is handed the next update of the run.  An
\* update that passes is given to the callback and its time is kept; when the
\* callback raises (raises), the time is not kept and the run is over.
ReportThrottled(raises) ==
    /\ throttle.run >= 1
    /\ throttle.next \in 1..Len(Emissions)
    /\ LET percentage == Emissions[throttle.next]
           current_time == throttle.now
           passes == Delivers(percentage,
                              current_time - throttle.last_progress_update >= ProgressUpdateTicks)
           told == [throttle EXCEPT
                      !.report = [percentage |-> percentage, delivered |-> passes,
                                  elapsed |-> \/ throttle.delivered_at = 0
                                              \/ current_time - throttle.delivered_at
                                                     >= ProgressUpdateTicks],
                      !.delivered_at = IF passes THEN current_time ELSE @]
           after == IF passes /\ raises THEN NextRunOf(told)
                    ELSE [told EXCEPT !.last_progress_update = IF passes THEN current_time ELSE @,
                                      !.next = @ + 1]
       IN throttle' = IF after.next = Len(Emissions) + 1 THEN NextRunOf(after) ELSE after
    /\ UNCHANGED <<usage, callbacks, panel, save, stream, headless, ctrl, thread_lock, engine, workerState, callerPc,
                   callLog, starters, validation, cleanups>>

\* A client calls transcribe_video on a new service: _last_progress_update
\* is 0 and the clock is far beyond it.
InitThrottle ==
    /\ usage = "direct"
    /\ headless = "off"
    /\ Constructed
    /\ request = NoRequest
    /\ errors = NotValidated
    /\ save = NotSaved
    /\ stream = NotOpened
    /\ throttle = [now |-> ProgressUpdateTicks, last_progress_update |-> 0, next |-> 1,
                   run |-> 1, delivered_at |-> 0, report |-> NoReport]
    /\ panel = NotShown
    /\ callbacks = SoundCallbacks

NextThrottle == ClockTick \/ \E r \in BOOLEAN : ReportThrottled(r)

SpecThrottle == InitThrottle /\ [][NextThrottle]_vars

\* ---------------------------------------------------------- ProgressPanel
UpdateBatchSize == 10
PendingLimit == 50
PendingKept == 25

\* A pending update that sets no percentage (a line of the verbose log).
LogLine == NoPct

\* update_progress skips an update that comes less than 100 ms after the
\* last one (recent) unless it is 0, 100 or a multiple of 10.
Skipped(percentage, recent) ==
    /\ recent
    /\ percentage \notin {Pct(0), Pct(100)}
    /\ percentage % Pct(10) # 0

\* update_progress gives priority to 0, 100 and the multiples of 25.
HighPriority(percentage) ==
    percentage \in {Pct(0), Pct(100)} \/ percentage % Pct(25) = 0

\* update_progress: the pending updates after the call.
update_progress(pending, percentage, recent) ==
    IF Skipped(percentage, recent) THEN pending
    ELSE IF HighPriority(percentage) THEN <<percentage>> \o pending
    ELSE Append(pending, percentage)

\* handle_progress_update, called on the worker's thread with the next update
\* of the run: update_progress, then add_log_message with the update's
\* message.  passes: the service's throttle let the update through; recent:
\* the last call of update_progress is less than 100 ms ago.
HandleProgressUpdate(passes, recent) ==
    /\ panel.next \in 1..Len(Emissions)
    /\ recent => panel.called
    /\ LET percentage == Emissions[panel.next]
       IN IF Delivers(percentage, passes)
          THEN panel' = [panel EXCEPT
                           !.pending = Append(update_progress(@, percentage, recent), LogLine),
                           !.called = TRUE,
                           !.next = @ + 1]
          ELSE panel' = [panel EXCEPT !.next = @ + 1]
    /\ UNCHANGED <<usage, callbacks, throttle, save, stream, headless, ctrl, thread_lock, engine, workerState,
                   callerPc, callLog, starters, validation, cleanups>>

\* The percentages among the updates of a batch, in the batch's order.
RECURSIVE Percentages(_)
Percentages(updates) ==
    IF updates = <<>> THEN <<>>
    ELSE IF Head(updates) = LogLine THEN Percentages(Tail(updates))
    ELSE <<Head(updates)>> \o Percentages(Tail(updates))

\* _process_pending_updates on the main thread, the last batch at least
\* 50 ms ago: the first updates are taken off the queue, a queue still
\* longer than 50 is cut to its last 25, and the batch is applied in order.
ProcessPendingUpdates ==
    /\ panel.next >= 1
    /\ panel.pending # <<>>
    /\ LET batch_size == Min(UpdateBatchSize, Len(panel.pending))
           updates_to_process == SubSeq(panel.pending, 1, batch_size)
           rest == SubSeq(panel.pending, batch_size + 1, Len(panel.pending))
           kept == IF Len(rest) > PendingLimit
                   THEN SubSeq(rest, Len(rest) - PendingKept + 1, Len(rest))
                   ELSE rest
       IN panel' = [panel EXCEPT !.pending = kept,
                                 !.applied = @ \o Percentages(updates_to_process)]
    /\ UNCHANGED <<usage, callbacks, throttle, save, stream, headless, ctrl, thread_lock, engine, workerState,
                   callerPc, callLog, starters, validation, cleanups>>

\* One run is shown: start_operation has set the bar to 0 and nothing is
\* pending.
InitPanel ==
    /\ usage = "controller"
    /\ headless = "off"
    /\ Constructed
    /\ request = NoRequest
    /\ errors = NotValidated
    /\ save = NotSaved
    /\ stream = NotOpened
    /\ throttle = NotTimed
    /\ panel = [pending |-> <<>>, applied |-> <<>>, next |-> 1, called |-> FALSE]
    /\ callbacks = SoundCallbacks

NextPanel ==
    \/ \E passes, recent \in BOOLEAN : HandleProgressUpdate(passes, recent)
    \/ ProcessPendingUpdates

SpecPanel == InitPanel /\ [][NextPanel]_vars

\* ------------------------------------------------------ faulty callbacks
\* The callbacks registered with the controller may raise whenever they are
\* invoked; the runs follow one another.
InitContained ==
    /\ usage = "controller"
    /\ Constructed
    /\ headless = "off"
    /\ save = NotSaved
    /\ stream = NotOpened
    /\ throttle = NotTimed
    /\ panel = NotShown
    /\ callbacks = [SoundCallbacks EXCEPT !.faulty = TRUE]
    /\ request = NoRequest
    /\ errors = NotValidated

SpecContained == InitContained /\ [][NextSerial]_vars

\* ============================================================== claims
StartCalled == callTick' # callTick /\ lastCall'[1] = "start"
CancelCalled == callTick' # callTick /\ lastCall'[1] = "cancel"
Live == {w \in Workers : Alive(w)}

\* C1: a start_transcription call made while a run is active fails with
\* RuntimeError and leaves the run flag, the current request, the thread
\* handle and every worker unchanged.
C1_StartWhileRunningRaisesRuntimeError ==
    [][(StartCalled /\ is_running) =>
           (lastCall' = <<"start", "RuntimeError">> /\ UNCHANGED <<ctrl, workerState>>)]_vars

\* C2: at most one worker thread of the controller is executing at any time.
C2_AtMostOneWorker == Cardinality(Live) <= 1

\* C3: the completion callback is invoked exactly once for every accepted
\* run: never twice, and once by the time the worker has ended.
C3_CompletionExactlyOnce ==
    \A w \in Workers :
        /\ Len(delivered[w]) <= 1
        /\ (usage = "controller" /\ pc[w] = "dead") => Len(delivered[w]) = 1

\* C4: when the completion callback of a run is invoked, the controller no
\* longer counts that run as running.
C4_IdleAtCompletionCallback ==
    \A w \in Workers : pc[w] = "in_callback" => ~(is_running /\ current_thread = w)

\* C5: an exception raised inside the worker never leaves the thread: the
\* completion callback gets a failed result carrying the exception's message.
C5_WorkerExceptionBecomesFailedResult ==
    \A w \in Workers :
        /\ escaped[w] = "none"
        /\ (usage = "controller" /\ pc[w] = "dead" /\ frame[w].pending # "none") =>
               /\ Len(delivered[w]) = 1
               /\ ~delivered[w][1].success
               /\ delivered[w][1].error_message = frame[w].pending

\* C6: once transcribe_video has been left, by return or by exception, the
\* temp audio file created for that run does not exist.
C6_NoTempFileAfterTranscribe ==
    \A w \in Workers : pc[w] \in {"returned", "raised"} => w \notin disk

\* C7: transcribe_video never raises.
C7_TranscribeNeverRaises == \A w \in Workers : pc[w] # "raised"

\* C8: a run cancelled before any progress update was delivered ends with the
\* cancelled result, and its temp audio file does not exist.
C8_EarlyCancelGivesCancelledResult ==
    \A w \in earlyCancel :
        /\ pc[w] \notin {"raised", "finally"}
        /\ pc[w] \in {"returned", "in_callback"} =>
               (result[w] = _create_cancelled_result /\ w \notin disk)

\* C9: when the wait of cancel_transcription times out with the worker still
\* alive, the run flag, current request and thread handle stay as they were.
C9_TimeoutLeavesRunActive ==
    [][(lastCall' = <<"cancel", "timeout">> /\ lastCall # lastCall') => UNCHANGED ctrl]_vars

\* C10: cancel_transcription with no run active returns normally and changes
\* nothing: the controller stays idle and the service's token is untouched.
C10_CancelWhenIdleIsNoop ==
    [][(CancelCalled /\ usage = "controller" /\ ~is_running) =>
           (/\ lastCall' = <<"cancel", "noop">>
            /\ ~is_running'
            /\ UNCHANGED <<ctrl, thread_lock, engine, workerState, callerPc>>)]_vars

\* C10, its case: a cancel that found no run active, made after a run that
\* had been cancelled has ended.
C10_Witness ==
    /\ lastCall = <<"cancel", "noop">>
    /\ \E w \in Workers : pc[w] = "dead" /\ delivered[w] = <<_create_cancelled_result>>

\* C11: of two start_transcription calls with valid requests that race on an
\* idle controller, one is accepted and the other fails with the
\* already-running RuntimeError.
C11_RacingStartsOneAccepted ==
    \A c, d \in Starters :
        (/\ c # d
         /\ starters[c].raced /\ starters[d].raced
         /\ starters[c].valid /\ starters[d].valid
         /\ starters[c].at = "returned" /\ starters[d].at = "returned") =>
            {starters[c].outcome, starters[d].outcome} = {"accepted", "RuntimeError"}

\* C12: a start_transcription call whose request fails validation raises
\* ValueError, starts no worker and leaves the run flag, the current request
\* and the thread handle unchanged.
C12_InvalidStartRaisesValueError ==
    [][(StartCalled /\ ~is_running /\ lastCall'[2] # "accepted") =>
           (lastCall' = <<"start", "ValueError">> /\ UNCHANGED <<ctrl, workerState>>)]_vars

\* The checks of a request that fail, each taken on its own.
FailedChecks(r) ==
    {c \in {"source existence", "source format", "source size", "destination writability",
            "format enum", "verbose type"} :
        \/ c = "source existence" /\ (~r.video_path.given \/ r.video_path.kind = "missing")
        \/ c = "source format" /\ r.video_path.kind = "file" /\ ~r.video_path.supported
        \/ c = "source size" /\ r.video_path.kind = "file"
                             /\ r.video_path.size \in {"zero", "small", "large"}
        \/ c = "destination writability" /\ validate_output_path(r.output_path) # Valid
        \/ c = "format enum" /\ validate_output_format(r.output_format) # Valid
        \/ c = "verbose type" /\ validate_verbose_mode(r.verbose) # Valid}

\* The check an entry of the error list reports.
CheckReported(e) ==
    IF e[1] = "Output path" THEN "destination writability"
    ELSE IF e[1] = "Output format" THEN "format enum"
    ELSE IF e[1] = "Verbose mode" THEN "verbose type"
    ELSE IF e[2] \in {"No file path provided", "File does not exist"} THEN "source existence"
    ELSE IF e[2] = "Unsupported file format" THEN "source format"
    ELSE IF e[2] \in {"File is empty", "File is too small", "File is too large"}
    THEN "source size"
    ELSE "other"

\* C13: the error list of a validated request names every check that fails
\* for it, not only the first one met.
C13_ValidationListsEveryFailedCheck ==
    errors # NotValidated =>
        FailedChecks(request) \subseteq {CheckReported(errors[k]) : k \in 1..Len(errors)}

\* C14: the percentages delivered to the progress callback during one run
\* never decrease, whatever the path and the number of chunks (85% and 90%
\* are delivered in one step, after whatever was delivered before).
C14_ProgressNonDecreasing ==
    [][\A w \in Workers :
          /\ (lastPct'[w] # lastPct[w] /\ pc'[w] # "dead") => lastPct'[w] > lastPct[w]
          /\ (pc[w] = "rec_prepare" /\ pc'[w] # "rec_prepare") =>
                 (lastPct[w] <= Pct(85) /\ Pct(85) <= Pct(90))]_vars

\* C14, its case: the update of the second of two chunks (97.5%) has been
\* delivered after the stage milestones.
C14_Witness ==
    \E w \in Workers : frame[w].num_chunks = 2 /\ frame[w].i = 1
                       /\ lastPct[w] = ChunkProgress(1, 2) /\ pc[w] = "rec_call"

\* C15: once the completion callback of a run has been invoked, no progress
\* update of that run is delivered any more.
C15_CompletionIsLastCallback ==
    [][\A w \in Workers :
          delivered[w] # <<>> => lastPct'[w] \in {lastPct[w], NoPct}]_vars

\* C15, its case: the completion callback of a run has been invoked with a
\* successful result, after the run's progress updates up to 100%.
C15_Witness ==
    \E w \in Workers : /\ pc[w] = "in_callback"
                       /\ delivered[w] # <<>> /\ delivered[w][1].success
                       /\ lastPct[w] = Pct(100)

\* C16: every accepted run, whatever its outcome, reaches the end of its
\* worker with file_manager.cleanup_temp_files called and the controller
\* reset: run flag false, no current request, no thread handle.
C16_WorkerEventuallyCleansAndResets ==
    \A w \in Workers :
        (usage = "controller" /\ pc[w] = "spawned") ~>
            (pc[w] = "dead" /\ w \in cleanups
             /\ ~is_running /\ current_request = NoRequest /\ current_thread = NoThread)

\* C16, its case: a worker whose except block was left by an exception has
\* ended, its cleanup called.
C16_Witness ==
    \E w \in Workers : pc[w] = "dead" /\ escaped[w] # "none" /\ w \in cleanups

\* ---------------------------------------------------------------- C17
\* The answers of one direct call, and the step in which transcribe_video
\* returns after its recognizer ran to the end.
RecognizerDone(w) == usage = "direct" /\ pc[w] = "p100" /\ pc'[w] = "returned"

\* The run used the chunk loop (an empty record is a loop over no chunk).
Chunked(h) == \A k \in 1..Len(h) : h[k].chunk = k

\* The text a chunk contributes: its answer without surrounding whitespace.
ChunkText(e) == Strip(Text(IF e.chunk = WholeFile THEN 1 ELSE e.chunk, e.answer))
HasWords(t) == t # <<>>
ChunkTexts(h) == SelectSeq([k \in 1..Len(h) |-> ChunkText(h[k])], HasWords)
AllTexts(h) == \A k \in 1..Len(h) : h[k].answer \in Texts

\* C17 as stated: when every chunk recognizes successfully, transcribe_video
\* returns success=true with a non-empty transcript equal to the chunk texts
\* joined by a single space in chunk order.
C17_AllRecognizedGivesJoinedTranscript ==
    [][\A w \in Workers :
         (RecognizerDone(w) /\ Chunked(frame[w].heard) /\ AllTexts(frame[w].heard))
         => /\ result'[w].success
            /\ result'[w].transcript # <<>>
            /\ result'[w].transcript = Join(ChunkTexts(frame[w].heard))]_vars

\* C17 amended: when every chunk recognizes successfully, transcribe_video
\* returns success=true with the transcript equal to the chunk texts, each
\* without its surrounding whitespace and the blank ones left out, joined by
\* a single space in chunk order; the transcript is non-empty exactly when
\* some chunk's text has words (it is empty for an audio of no chunk and
\* for chunks answered with whitespace only).
C17_AllRecognizedGivesJoinedWords ==
    [][\A w \in Workers :
         (RecognizerDone(w) /\ Chunked(frame[w].heard) /\ AllTexts(frame[w].heard))
         => /\ result'[w].success
            /\ result'[w].transcript = Join(ChunkTexts(frame[w].heard))
            /\ result'[w].transcript # <<>>
                 <=> \E k \in 1..Len(frame[w].heard) :
                        frame[w].heard[k].answer \in {"text", "padded"}]_vars

\* Two chunks, the first answered with padded words and the second with words,
\* came back as "1 2".
C17_Witness ==
    \E w \in Workers :
        /\ usage = "direct"
        /\ pc[w] = "returned"
        /\ Len(frame[w].heard) = 2
        /\ frame[w].heard[1] = [chunk |-> 1, answer |-> "padded"]
        /\ frame[w].heard[2] = [chunk |-> 2, answer |-> "text"]
        /\ result[w].success
        /\ result[w].transcript = <<1, Space, 2>>

\* ---------------------------------------------------------------- C18
\* The chunks that were answered with a text.
Recognized(e) == e.answer \in Texts

\* No separator at either end of the transcript and no two in a row.
NoStraySeparator(t) ==
    /\ t # <<>> => (t[1] # Space /\ t[Len(t)] # Space)
    /\ \A j \in 1..(Len(t) - 1) : ~(t[j] = Space /\ t[j + 1] = Space)

ExactlyOneUnrecognized(h) ==
    /\ Cardinality({k \in 1..Len(h) : h[k].answer = "UnknownValueError"}) = 1
    /\ \A k \in 1..Len(h) : h[k].answer \in Texts \cup {"UnknownValueError"}

\* C18: when exactly one chunk, at any position, raises UnknownValueError and
\* all the others are answered with a text, transcribe_video returns
\* success=true and the transcript is the space-join of the other chunks'
\* texts: the failed chunk adds no character and no separator.
C18_OneUnrecognizedChunkIsLeftOut ==
    [][\A w \in Workers :
         (RecognizerDone(w) /\ Chunked(frame[w].heard) /\ ExactlyOneUnrecognized(frame[w].heard))
         => /\ result'[w].success
            /\ result'[w].transcript = Join(ChunkTexts(SelectSeq(frame[w].heard, Recognized)))
            /\ NoStraySeparator(result'[w].transcript)]_vars

\* Three chunks, the middle one not understood: the call returned "1 3".
C18_Witness ==
    \E w \in Workers :
        /\ usage = "direct"
        /\ pc[w] = "returned"
        /\ Len(frame[w].heard) = 3
        /\ frame[w].heard[1].answer = "text"
        /\ frame[w].heard[2].answer = "UnknownValueError"
        /\ frame[w].heard[3].answer = "text"
        /\ result[w].success
        /\ result[w].transcript = <<1, Space, 3>>

\* ---------------------------------------------------------------- C19
RequestFailed(h) == \E k \in 1..Len(h) : h[k].answer = "RequestError"

\* C19: a RequestError on any chunk aborts the whole run at once: no later
\* chunk is sent for recognition, the texts of the earlier chunks are
\* discarded, and transcribe_video ends with a Result that has success=false
\* (never with an exception in place of the Result).
C19_RequestErrorAbortsWithFailedResult ==
    \A w \in Workers :
        (usage = "direct" /\ Chunked(frame[w].heard) /\ RequestFailed(frame[w].heard))
        => /\ \A k \in 1..Len(frame[w].heard) :
                 frame[w].heard[k].answer = "RequestError" => k = Len(frame[w].heard)
           /\ pc[w] \in {"returned", "tv_except", "raised"}
           /\ pc[w] # "raised"
           /\ pc[w] = "returned" => (~result[w].success /\ result[w].transcript = <<>>)

\* ---------------------------------------------------------------- C20
AllUnrecognized(h) ==
    /\ h # <<>>
    /\ \A k \in 1..Len(h) : h[k].answer = "UnknownValueError"

\* C20: for an audio that is all silence (every chunk of the loop is answered
\* with UnknownValueError), no answer ends the loop or adds a text, and
\* transcribe_video returns success=true with the empty string as transcript.
C20_AllSilenceGivesEmptySuccess ==
    [][\A w \in Workers :
         /\ (usage = "direct" /\ pc[w] = "rec_call" /\ frame'[w].heard # frame[w].heard
               /\ Chunked(frame'[w].heard)
               /\ AllUnrecognized(frame'[w].heard))
            => /\ pc'[w] \in {"rec_chunk", "p100"}
               /\ frame'[w].transcript_parts = <<>>
               /\ frame'[w].transcript = <<>>
         /\ (RecognizerDone(w) /\ Chunked(frame[w].heard) /\ AllUnrecognized(frame[w].heard))
            => (result'[w].success /\ result'[w].transcript = <<>>)]_vars

\* Three chunks, none understood: the call returned success with "".
C20_Witness ==
    \E w \in Workers :
        /\ usage = "direct"
        /\ pc[w] = "returned"
        /\ Len(frame[w].heard) = 3
        /\ AllUnrecognized(frame[w].heard)
        /\ Chunked(frame[w].heard)
        /\ result[w].success
        /\ result[w].transcript = <<>>

\* ---------------------------------------------------------------- C21
\* Step 2 ends the run: the video has no audio track.
NoAudioTrack(w) == pc[w] = "extract" /\ pc'[w] # "extract" /\ pc'[w] # "p50"

\* C21: if the video has no audio track, transcribe_video returns
\* success=false with a message that names the missing audio track, and the
\* run neither created a temp audio file nor leaves one behind.
C21_NoAudioTrackFailsWithoutTempFile ==
    [][\A w \in Workers :
         NoAudioTrack(w)
         => /\ pc'[w] = "returned"
            /\ ~result'[w].success
            /\ result'[w].error_message = "Failed to extract audio: Video file contains no audio track"
            /\ frame[w].temp_audio_path = NoFile
            /\ UNCHANGED <<disk, temp_audio_file>>]_vars

\* ---------------------------------------------------------------- C22
\* The messages of the results transcribe_video returns for a failed run.
TranscriptionFailureMessages ==
    {"Video file not found", "Failed to load video",
     "Failed to extract audio: Video file contains no audio track",
     "Failed to write audio file", "Transcription failed",
     _create_cancelled_result.error_message}
    \cup {RecognitionFailed(c) : c \in {"missing", "cancelled", "unknown", "request"}}

SaveFailedMessage == "Transcription completed but failed to save"

\* The thread target leaves the point where transcribe_video has returned r.
AfterTranscribe(w) == usage = "controller" /\ pc[w] = "returned" /\ pc'[w] # "returned"

\* The latest Result handed to the completion callback of run w.
Last(d) == d[Len(d)]

\* The Result of a save the file writer reported as failed.
SaveFailedResult(r) == TranscriptionResult(FALSE, r.transcript, SaveFailedMessage, NoRequest)

\* C22: the file writer is invoked only after the engine returned success; if
\* it reports failure, the completion callback receives a Result with
\* success=false, output_file_path=None, the recognized transcript and the
\* message 'Transcription completed but failed to save ...', which differs
\* from every transcription-failure message.  Hence for a recognized,
\* non-empty transcript the callback receives either the saved Result or
\* that downgraded one, and a failed engine Result is delivered as it is.
C22_SaveFailureIsDeliveredAsDowngradedResult ==
    [][\A w \in Workers :
         AfterTranscribe(w)
         => /\ SaveFailedMessage \notin TranscriptionFailureMessages
            /\ ~result[w].success
                 => (delivered'[w] = Append(delivered[w], result[w])
                     /\ result[w].error_message # SaveFailedMessage)
            /\ (result[w].success /\ result[w].transcript # <<>>)
                 => /\ Len(delivered'[w]) = Len(delivered[w]) + 1
                    /\ Last(delivered'[w]) \in
                          {[result[w] EXCEPT !.output_file_path = w], SaveFailedResult(result[w])}]_vars

\* ---------------------------------------------------------------- C23
\* The worker of the headless run has ended.
WorkerOver == \E w \in Workers : pc[w] = "dead"
SuccessDelivered == \E w \in Workers : delivered[w] # <<>> /\ Last(delivered[w]).success
FailureDelivered == \E w \in Workers : delivered[w] # <<>> /\ ~Last(delivered[w]).success

ExtensionIsExactly(r) == suffix(r.output_path) = Lower(r.output_format)

\* The request's extension is the one of its format, compared without case.
ExtensionMatches(r) == Lower(suffix(r.output_path)) = Lower(r.output_format)

\* A run has been accepted: a thread has been created for it.
SomeRunAccepted == \E w \in Workers : pc[w] # "unborn"

\* C24 as stated: once start_transcription has accepted a run, the request's
\* output path ends in exactly .txt for txt and .json for json, and that
\* path stays the request's path while it is stored, written to and reported.
C24_AcceptedStartGivesExactExtension ==
    [][/\ (StartCalled /\ lastCall'[2] = "accepted") => ExtensionIsExactly(request')
       /\ SomeRunAccepted => /\ ExtensionIsExactly(request)
                             /\ request'.output_path = request.output_path]_vars

\* C24, amended: once start_transcription has accepted a run, the request's
\* output path ends in the extension of its format compared without case (an
\* extension such as .TXT is kept for txt), and that path stays the path of
\* the request that is stored as current request, handed to the file writer
\* and reported as output_file_path.
C24_AcceptedStartGivesMatchingExtension ==
    [][/\ (StartCalled /\ lastCall'[2] = "accepted") => ExtensionMatches(request')
       /\ SomeRunAccepted => /\ ExtensionMatches(request)
                             /\ request'.output_path = request.output_path]_vars

\* A run started with out.tar.gz for txt has reported success for out.tar.txt.
C24_Witness ==
    /\ request.output_path = <<"out", "tar", "txt">>
    /\ \E w \in Workers : /\ delivered[w] # <<>>
                          /\ Last(delivered[w]).success
                          /\ Last(delivered[w]).output_file_path = w

\* ---- C25
\* save_transcript has returned or raised without an I/O failure of the write.
SaveCallOver == save.returned \notin {"none", "not called", "False"}

\* C25: for every transcript text, the empty one included, a call
\* save_transcript(text, path, 'txt') whose write meets no I/O failure
\* returns True, and the file read back afterwards is exactly text.
C25_SavedTxtReadsBackAsText ==
    (save.format = "txt" /\ SaveCallOver) =>
        /\ save.returned = "True"
        /\ save.file # Absent
        /\ save.read # NotRead => save.read = save.text

\* ---- C26
\* transcribe_video has returned success with the empty transcript to run w.
EmptySuccess(w) == result[w].success /\ result[w].transcript = <<>>

\* C26: when the engine returns success=true with an empty transcript, the
\* thread target hands the completion callback a Result, and that Result has
\* success=true.
C26_EmptyTranscriptStaysSuccess ==
    [][\A w \in Workers :
         (AfterTranscribe(w) /\ EmptySuccess(w))
         => /\ Len(delivered'[w]) = Len(delivered[w]) + 1
            /\ Last(delivered'[w]).success]_vars

\* ---- C27
\* Run w is inside transcribe_video with the temp audio file it was given.
UsesTempFile(w) == Alive(w) /\ frame[w].temp_audio_path # NoFile

\* C27: the temp audio file is used by one run at a time: two runs that are
\* both executing never hold the same temp file path, so that neither reads
\* nor deletes the file of the other.
C27_TempFileHasOneUser ==
    \A w \in Workers, v \in Workers :
        (w # v /\ UsesTempFile(w) /\ UsesTempFile(v))
        => frame[w].temp_audio_path # frame[v].temp_audio_path

\* ---- C28
\* The thread of run w ends: its finally block has run.
WorkerEnds(w) == pc[w] \in {"in_callback", "finally"} /\ pc'[w] = "dead"

\* C28: the final state reset of a worker clears only the state of its own
\* run: when the controller holds a newer run, the worker that ends leaves
\* the run flag, the current request and the thread handle as they are.
C28_FinallyLeavesNewerRunAlone ==
    [][\A w \in Workers :
         (WorkerEnds(w) /\ is_running /\ current_thread # w)
         => UNCHANGED <<is_running, current_request, current_thread>>]_vars

\* ---- C29
\* The wait of cancel_transcription ends.
JoinReturns == callerPc = "joining" /\ callerPc' = "idle"

\* No wait of cancel_transcription ends with the thread ended.
JoinNeverFindsThreadEnded == lastCall # <<"cancel", "joined">>

\* C29: the wait of cancel_transcription can end because the worker exited:
\* when the 5 s are ample, the worker that observes the token finishes, its
\* final state reset included, while cancel waits, and the wait returns with
\* the thread ended instead of running to the timeout.
C29_WaitEndsWhenWorkerExits ==
    [][JoinReturns => lastCall' = <<"cancel", "joined">>]_vars

\* ---- C30
\* The write of the audio file of run w runs to its end: the whole file is
\* on disk and the run goes on to its next stage.
WriteCompleted(w) == pc[w] = "write" /\ pc'[w] = "p80"

\* C30: a cancellation requested while the audio file is being written is
\* observed during the write: with the token set the writer stops early, so
\* no write runs to its end under a set token.
C30_CancelStopsAudioWrite ==
    [][\A w \in Workers : WriteCompleted(w) => ~cancel_event]_vars

\* ---- C31
\* The places where a run looks at the token: the stage boundaries of
\* transcribe_video, the opening of the audio file and the head of the chunk
\* loop of the recognizer.
TokenChecks == {"p10", "p30", "p50", "p80", "rec_load", "rec_chunk"}

\* Run w finds the token set at one of its checks and stops with a Result
\* (at the opening of the audio file the progress report and the look for the
\* file come before the check).
StopsOnToken(w) ==
    /\ cancel_event
    /\ pc[w] \in TokenChecks
    /\ pc[w] = "rec_load" => (temp_audio_file # NoFile /\ temp_audio_file \in disk)
    /\ pc'[w] = "returned"
    /\ result'[w].error_message # RecognitionFailed("callback")

\* C31: a run that stops because it found the token set, at a stage boundary
\* or at a check inside recognition, ends with the cancelled outcome
\* 'Transcription was cancelled by user' and never with a stage failure.
C31_TokenStopIsCancelledOutcome ==
    [][\A w \in Workers : StopsOnToken(w) => result'[w] = _create_cancelled_result]_vars

\* ---- C32
\* Run w takes a step of its own.
Steps(w) == pc'[w] # pc[w]

\* The recognition service has been invoked once more for run w.
ServiceInvoked(w) == Len(frame'[w].heard) = Len(frame[w].heard) + 1

\* The outcomes of a run that stopped at a token check.
CancelledMessages ==
    {_create_cancelled_result.error_message, RecognitionFailed("cancelled")}

\* C32: when the token is set at the cancellation check of a chunk, the
\* recognizer is left without the recognition service being invoked for that
\* chunk or a later one; the service is invoked only by the whole-file call
\* and by a chunk whose check found the token clear; and a call that is in
\* flight when the token is set is carried through: its answer is taken and
\* it is not turned into a cancellation.
C32_SetTokenStopsBeforeNextCall ==
    [][\A w \in Workers :
         /\ (pc[w] = "rec_chunk" /\ cancel_event /\ Steps(w))
               => /\ pc'[w] \in {"returned", "tv_except"}
                  /\ frame'[w].heard = frame[w].heard
         /\ ServiceInvoked(w) => pc[w] \in {"rec_whole", "rec_call"}
         /\ (usage = "direct" /\ pc[w] = "rec_call" /\ cancel_event /\ Steps(w))
               => /\ ServiceInvoked(w)
                  /\ pc'[w] = "returned" => result'[w].error_message \notin CancelledMessages]_vars

\* A direct call was cancelled between its first and its second chunk: one
\* answer was taken and the run ended at the check of the second chunk.
C32_Witness ==
    \E w \in Workers :
        /\ usage = "direct"
        /\ pc[w] = "returned"
        /\ result[w].error_message = RecognitionFailed("cancelled")
        /\ Len(frame[w].heard) = 1
        /\ frame[w].heard[1].chunk = 1

\* ---- C33
\* The recognition service answers run w that it could not understand the
\* audio it was sent.
UnrecognizedAnswer(w) ==
    /\ ServiceInvoked(w)
    /\ Last(frame'[w].heard).answer = "UnknownValueError"

\* C33: an unrecognized-speech answer never leaves the recognizer as an
\* error, in the chunk loop or in the whole-file fallback: the step that
\* takes the answer does not end the run, so the run goes on to its end.
C33_UnrecognizedSpeechNeverFailsRun ==
    [][\A w \in Workers :
         UnrecognizedAnswer(w) => pc'[w] \in {"rec_chunk", "p100"}]_vars

\* ---- C34
\* transcribe_video of run w has been left, by a return or by an exception.
LeftTranscribeVideo(w) == pc[w] \in {"returned", "raised"}

\* C34: whichever way transcribe_video is left - a stage failure, a
\* cancellation at a boundary, success, or an exception that escaped a later
\* step such as a progress report - the video and the audio handle it
\* acquired have been closed.
C34_HandlesClosedOnEveryExit ==
    \A w \in Workers : LeftTranscribeVideo(w) => (~frame[w].video /\ ~frame[w].audio)

\* ---- C35
\* ceil(d / 30)
WindowCount(d) == (d + ChunkDuration - 1) \div ChunkDuration

\* The interval [30*(k-1), min(30*k, d)) of the audio, the k-th window.
Window(k, d) == <<Ticks(ChunkDuration * (k - 1)), Ticks(Min(ChunkDuration * k, d))>>

\* C35: for a known duration D the chunk loop makes ceil(D/30) recognition
\* calls, one per 30-second window in increasing order, and the audio
\* recorded for the k-th call is the k-th window of the file, so that the
\* windows cover the audio without gap or overlap.
C35_WindowsTileTheAudio ==
    stream.at = "joined" =>
        /\ Len(stream.windows) = WindowCount(stream.DURATION)
        /\ \A k \in 1..Len(stream.windows) : stream.windows[k] = Window(k, stream.DURATION)

\* ---- C36
\* An update has been handed to _report_progress_throttled.
UpdateReported == throttle.report.percentage # NoPct

\* C36: an update handed to the throttle reaches the callback exactly when
\* at least 100 ms have passed since the last update that reached it (or none
\* has reached it yet) or its percentage is a milestone; on the first run of
\* a service and on the second.
C36_DeliveredIffElapsedOrMilestone ==
    UpdateReported =>
        (throttle.report.delivered <=>
            (throttle.report.elapsed \/ throttle.report.percentage \in Milestones))

\* On the second run of a service a milestone reached the callback less than
\* 100 ms after the update before it.
C36_Witness ==
    /\ throttle.run = 2
    /\ throttle.report.percentage = Pct(80)
    /\ throttle.report.delivered
    /\ ~throttle.report.elapsed

\* On the second run an update that is no milestone was held back.
C36_HeldBackOnSecondRun ==
    /\ throttle.run = 2
    /\ UpdateReported
    /\ ~throttle.report.delivered

\* ---- C37
\* C37: within one run the percentages applied to the progress bar never go
\* down: no update is applied after one with a higher percentage.
C37_AppliedInNonDecreasingOrder ==
    \A i, j \in 1..Len(panel.applied) :
        i < j => panel.applied[i] <= panel.applied[j]

\* ---- C38
\* The errors of the caller's callbacks that the controller has logged for run w.
ProgressCallbackFailed(w) == "progress" \in callbacks.logged[w]
CompletionCallbackFailed(w) == "completion" \in callbacks.logged[w]

\* What an error of the progress callback would leave behind if it reached
\* transcribe_video.
CallbackErrorMessages == {"CallbackError", RecognitionFailed("callback")}

\* No run has been ended by an error of the progress callback.
NoRunAbortedByCallback ==
    \A w \in Workers :
        /\ frame[w].pending # "CallbackError"
        /\ result[w].error_message \notin CallbackErrorMessages
        /\ \A i \in 1..Len(delivered[w]) :
               delivered[w][i].error_message \notin CallbackErrorMessages

\* The step in which the completion callback of run w raises.
CompletionCallbackRaises(w) ==
    ~CompletionCallbackFailed(w) /\ CompletionCallbackFailed(w)'

\* C38: under the controller an error of the caller's progress callback never
\* ends a run (no exception and no failed result comes of it), and when the
\* completion callback raises, the thread still cleans up its temp files,
\* resets the controller to idle and ends.
C38_CallbackErrorsAreContained ==
    /\ [](usage = "controller" => NoRunAbortedByCallback)
    /\ [][\A w \in Workers :
             CompletionCallbackRaises(w) =>
                 /\ w \in cleanups'
                 /\ ~is_running'
                 /\ current_thread' = NoThread
                 /\ pc'[w] = "dead"]_vars

\* The progress callback raised during a run that went on to a successful
\* result, and the completion callback raised on that result; the thread has
\* cleaned up and ended.
C38_Witness ==
    \E w \in Workers :
        /\ ProgressCallbackFailed(w)
        /\ CompletionCallbackFailed(w)
        /\ pc[w] = "dead"
        /\ w \in cleanups
        /\ Len(delivered[w]) = 1
        /\ delivered[w][1].success

\* ---- C39
\* The completion callback of run w is invoked in this step, and the last
\* progress event the run delivered before it is 100%.
CompletionAfterComplete(w) ==
    /\ lastPct[w] = Pct(100)
    /\ Len(delivered'[w]) = Len(delivered[w]) + 1

\* C39 as stated: once the 100% event of a run has been delivered, the Result
\* passed to its completion callback has success=true.
C39_CompleteIsNeverFollowedByFailure ==
    [][\A w \in Workers :
          CompletionAfterComplete(w) => Last(delivered'[w]).success]_vars

\* C39: once the 100% event of a run has been delivered, the Result passed to
\* its completion callback has success=true, or it is the Result of a save
\* the file writer reported as failed: the transcript of the run with the
\* message 'Transcription completed but failed to save ...'.
C39_CompleteIsFollowedBySuccessOrSaveFailure ==
    [][\A w \in Workers :
          CompletionAfterComplete(w) =>
              \/ Last(delivered'[w]).success
              \/ /\ result[w].success
                 /\ Last(delivered'[w]) = SaveFailedResult(result[w])]_vars

\* After its 100% event a run handed the completion callback the Result of a
\* failed save.
C39_Witness ==
    \E w \in Workers :
        /\ pc[w] = "in_callback"
        /\ lastPct[w] = Pct(100)
        /\ Len(delivered[w]) = 1
        /\ delivered[w][1].error_message = SaveFailedMessage

====
